---- MODULE Spec2Model ----
(***************************************************************************)
(* Model of the Hibachi market-making engine (hibachi_mm_engine.py,        *)
(* utils.py, hibachi_client.py).                                           *)
(*                                                                         *)
(* Number representation.  The engine computes in IEEE doubles; the model  *)
(* computes in fixed point:                                                *)
(*   prices      integer multiples of 1/PriceScale   (0.01)                *)
(*   quantities  integer multiples of 1/QtyScale     (0.01)                *)
(*   notionals   price * quantity, i.e. 1/(PriceScale*QtyScale) USD        *)
(*   equity      whole USD                                                 *)
(*   skew, multipliers, kATR, skewDamp, sizeAmp   hundredths               *)
(*   time        whole seconds                                             *)
(* Optional values (Python None) are the sentinel None.                    *)
(***************************************************************************)
EXTENDS Integers, Sequences, FiniteSets, TLC

VARIABLES
    phase,               \* "init" (constructed), "running" (bootstrapped), "aborted"
    params,              \* cfg["bot"] record
    contract,            \* ContractSpec record, or NoContract
    bid, ask,            \* MMState.bid / MMState.ask (SideState)
    prev_mid,            \* MMState.prev_mid
    equity_usd,          \* MMState.equity_usd
    pos_qty,             \* MMState.pos_qty
    last_bar,            \* MMState.last_bar
    last_equity_update,  \* MMState.last_equity_update
    order_count_1min,    \* MMState.order_count_1min
    last_order_reset,    \* MMState.last_order_reset
    quote_count,         \* MMState.quote_count
    atr,                 \* ATR instance: [rma, prev_close]
    now,                 \* time.time()
    venue_orders,        \* live orders on the venue: set of [id, side, qty]
    venue_pos,           \* the account's position on the venue
    fills,               \* orders the venue has filled so far
    last_fetch,          \* time of the latest account fetch at bootstrap or in a step
    boot,                \* what each call of the bootstrap answered
    calc_in,             \* arguments of the latest call of a pure function
    calc_out,            \* what that call returned
    clock,               \* time.time() in ticks of half a second
    pc,                  \* where main() stands: "loop", "due", "attempt", "backoff", "sleep", "shutdown", "done"
    loop_now,            \* main's local now (line 125), in ticks
    last_step,           \* main's local last_step, in ticks
    attempt,             \* step_with_retry's loop variable
    shutdown_requested,  \* the module-level flag
    ret,                 \* how the latest step_with_retry returned
    step_start,          \* clock at which the latest step_with_retry was called
    shutdown_runs,       \* times the shutdown sequence has run
    sleeps_after_flag,   \* loop sleeps begun since the flag was set
    calls,               \* gateway order calls made by the last operation, in order
    last                 \* the last operation: which, how it ended, the mid it
                         \* used, order_count_1min when it started

prog_vars == <<phase, params, contract, bid, ask, prev_mid, equity_usd, pos_qty,
               last_bar, last_equity_update, order_count_1min,
               last_order_reset, quote_count, atr, now, venue_orders, venue_pos, fills,
               last_fetch, boot, clock, pc, loop_now, last_step, attempt, shutdown_requested,
               ret, step_start, shutdown_runs, sleeps_after_flag,
               calls, last>>

vars == <<prog_vars, calc_in, calc_out>>

main_vars == <<clock, pc, loop_now, last_step, attempt, shutdown_requested,
               ret, step_start, shutdown_runs, sleeps_after_flag>>

engine_vars == <<phase, params, contract, bid, ask, prev_mid, equity_usd, pos_qty,
                 last_bar, last_equity_update, order_count_1min,
                 last_order_reset, quote_count, atr>>

-----------------------------------------------------------------------------
(* Representation *)

None == 0 - 1

PriceScale == 100

\* Ticks of the main loop's clock per second: the loop sleeps 0.5 s.
TimeScale == 2
QtyScale == 100
NotionalScale == PriceScale * QtyScale

Abs(x) == IF x < 0 THEN 0 - x ELSE x
Max2(a, b) == IF a >= b THEN a ELSE b
Min2(a, b) == IF a <= b THEN a ELSE b
Sign(x) == IF x > 0 THEN 1 ELSE IF x < 0 THEN 0 - 1 ELSE 0

\* Quotient rounded toward zero (fixed-point image of a float product/quotient).
DivT(a, b) == Sign(a) * (Abs(a) \div b)

-----------------------------------------------------------------------------
(* utils.py *)

clamp(x, lo, hi) == Max2(lo, Min2(hi, x))

\* px * (bps / 10000.0)
bps_to_price(px, bps) == DivT(px * bps, 10000)

\* x * (p / 100.0); p is given in tenths of a percent
pct_of(x, p10) == DivT(x * p10, 1000)

\* Number of decimal places of a value held in 1/scale units (scale = 100:
\* two places is the finest the model represents).
get_precision(value, scale) ==
    IF value = 0 THEN 0
    ELSE IF value % scale = 0 THEN 0
    ELSE IF value % (scale \div 10) = 0 THEN 1
    ELSE 2

\* f"{x:.{precision}f}" followed by float(): x rounded (half to even) to
\* `precision` decimal places.
FormatFixed(x, precision, scale) ==
    LET unit == IF precision = 0 THEN scale
                ELSE IF precision = 1 THEN scale \div 10
                ELSE 1
        q == x \div unit
        r == x % unit
    IN  IF 2 * r > unit THEN (q + 1) * unit
        ELSE IF 2 * r < unit THEN q * unit
        ELSE IF q % 2 = 0 THEN q * unit ELSE (q + 1) * unit

\* A quantizer that passes the raw price through.
q_price_raw(c, price) == price

\* ContractSpec.q_price: (v // s) * s
q_price(c, price) == DivT(price, c.tick_size) * c.tick_size

q_price_floor(c, price) == q_price(c, price)

\* A ceiling that steps up even from an exact multiple.
q_price_ceil_bump(c, price) == (DivT(price, c.tick_size) + 1) * c.tick_size

\* ContractSpec.q_price_ceil: v if v % s == 0 else ((v // s) + 1) * s
q_price_ceil(c, price) ==
    IF price % c.tick_size = 0 THEN price
    ELSE (DivT(price, c.tick_size) + 1) * c.tick_size

\* ContractSpec.q_qty: (v // s) * s
q_qty(c, qty) == DivT(qty, c.step_size) * c.step_size

\* ATR._tr
\* A true range that ignores the gap from the previous close.
ATR_tr_range(h, l, c_prev) == h - l

ATR_tr(h, l, c_prev) ==
    IF c_prev = None THEN h - l
    ELSE Max2(h - l, Max2(Abs(h - c_prev), Abs(l - c_prev)))

\* An update that records the close of every bar, closed or not.
ATR_update_bar_any_close(a, len, h, l, c, closed) ==
    LET tr == ATR_tr(h, l, a.prev_close)
        rma == IF a.rma = None THEN tr
               ELSE DivT((len - 1) * a.rma + tr, len)
    IN  [atr |-> [rma |-> rma, prev_close |-> c], rma |-> rma, tr |-> tr]

\* ATR.update_bar: returns the new estimator state and (rma, tr)
ATR_update_bar(a, len, h, l, c, closed) ==
    LET tr == ATR_tr(h, l, a.prev_close)
        rma == IF a.rma = None THEN tr
               ELSE DivT((len - 1) * a.rma + tr, len)
    IN  [atr |-> [rma |-> rma, prev_close |-> IF closed THEN c ELSE a.prev_close],
         rma |-> rma, tr |-> tr]

-----------------------------------------------------------------------------
(* HibachiMarketMakerEngine.step, lines 283-391: the quote calculation *)

\* lines 283-293: feed the rolling bar to the estimator, floor the result
StepVolatility(a, len, b, m) ==
    IF b.c > 0
    THEN LET u == ATR_update_bar(a, len, b.h, b.l, b.c, TRUE)
             bad == u.rma <= 0
             atr_val == IF bad THEN DivT(m, 1000) ELSE u.rma
             tr1 == IF bad THEN atr_val ELSE u.tr
         IN  [atr |-> u.atr, atr_val |-> Max2(atr_val, DivT(m * 5, 10000)), tr1 |-> tr1]
    ELSE [atr |-> a, atr_val |-> Max2(DivT(m, 1000), DivT(m * 5, 10000)), tr1 |-> 0]

\* A slip guard that never trips.
BigMoveNever(p, tr1, atr_val) == FALSE

\* line 295
BigMove(p, tr1, atr_val) ==
    p.slipGuardATR > 0 /\ tr1 > p.slipGuardATR * atr_val

\* A requote test that also fires on the threshold itself.
MidChangedLoose(p, m, prev) ==
    IF prev = None THEN TRUE
    ELSE Abs(m - prev) * 10000 >= m * p.requoteBps

\* lines 297-300: abs(m - prev_mid) > m * (requoteBps / 10000), compared exactly
MidChanged(p, m, prev) ==
    IF prev = None THEN TRUE
    ELSE Abs(m - prev) * 10000 > m * p.requoteBps

\* line 302
ShouldQuote(p, m, prev, tr1, atr_val) ==
    (~ BigMove(p, tr1, atr_val)) /\ MidChanged(p, m, prev)

\* A budget that is never below one dollar's.
MaxNotionalFloored(p, equity) == Max2(equity, 1) * p.invBudgetPct * (NotionalScale \div 100)

\* line 306: equity * (invBudgetPct / 100), in notional units
MaxNotional(p, equity) == equity * p.invBudgetPct * (NotionalScale \div 100)

\* a * 100 / b cut toward zero for |a| < b, divided digit by digit so that
\* no intermediate value leaves the 32-bit integers.
Hundredths(a, b) ==
    LET t == DivT(a * 10, b)
        r == a * 10 - t * b
    IN  t * 10 + DivT(r * 10, b)

\* A skew that is never clamped.
SkewUnclamped(position_notional, max_notional) ==
    IF max_notional > 0
    THEN LET whole == DivT(position_notional, max_notional)
         IN  whole * 100 + Hundredths(position_notional - whole * max_notional, max_notional)
    ELSE 0

\* line 312: clamp(position_notional / max_notional, -1, 1), in hundredths
Skew(position_notional, max_notional) ==
    IF max_notional > 0
    THEN IF position_notional >= max_notional THEN 100
         ELSE IF position_notional <= 0 - max_notional THEN 0 - 100
         ELSE Hundredths(position_notional, max_notional)
    ELSE 0

\* lines 314-316
HalfWidth(p, m, atr_val) ==
    clamp(DivT(p.kATR * atr_val, 100),
          DivT(m * p.minFullBps, 20000),
          DivT(m * p.maxFullBps, 20000))

\* lines 318-319
BullShift(p, m) == IF p.useBullBias THEN bps_to_price(m, p.bullBiasBps) ELSE 0

\* lines 321-322: skewDamp * abs(skew) * half_w * sgn
InvOffset(p, skew, half_w) ==
    Sign(skew) * DivT(p.skewDamp * Abs(skew) * half_w, 10000)

\* A safety margin of zero.
MinOffsetZero(m) == 0

\* lines 328-329: min_offset = m * 0.0015
MinOffset(m) == DivT(m * 15, 10000)

\* A bid that is left where the spread put it, however close to the mid.
MarginBidOff(m, bid_px) == bid_px

\* lines 332-333
MarginBid(m, bid_px) == IF bid_px >= m - MinOffset(m) THEN m - MinOffset(m) ELSE bid_px

\* lines 336-337
MarginAsk(m, ask_px) == IF ask_px <= m + MinOffset(m) THEN m + MinOffset(m) ELSE ask_px

\* An ask multiplier that grows with a short position instead.
AskMultShort(p, skew) == 100 + DivT(p.sizeAmp * Max2(0, 0 - skew), 100)

\* lines 342-343, in hundredths
AskMult(p, skew) == 100 + DivT(p.sizeAmp * Max2(0, skew), 100)
BidMult(p, skew) == 100 + DivT(p.sizeAmp * Max2(0, 0 - skew), 100)

\* lines 366-368: final sanity check after quantization, bid side
SanityBid(c, m, bid_px_q) ==
    IF bid_px_q >= m THEN q_price_floor(c, m - MinOffset(m)) ELSE bid_px_q

\* lines 371-373: final sanity check after quantization, ask side
SanityAsk(c, m, ask_px_q) ==
    IF ask_px_q <= m THEN q_price_ceil(c, m + MinOffset(m)) ELSE ask_px_q

\* A buy gate that is always open.
CanBuyAlways(position_notional, max_notional) == TRUE

\* line 376
CanBuy(position_notional, max_notional) == position_notional < max_notional

\* lines 377-380
CanSell(p, pos, position_notional, max_notional) ==
    IF p.longBiasOnly THEN pos > 0 ELSE position_notional > 0 - max_notional

\* An eligibility check that passes every order.
SideOkAlways(c, px_q, qty_q) == TRUE

\* lines 387-388
SideOk(c, px_q, qty_q) == qty_q >= c.min_qty /\ px_q * qty_q >= c.min_notional

\* The quote calculation without the check of the quantized prices
\* (lines 361-363 left out).
QuoteRawCheckOnly(p, c, m, prev, equity, pos, tr1, atr_val) ==
    LET position_notional == pos * m
        max_notional == MaxNotional(p, equity)
        skew == Skew(position_notional, max_notional)
        half_w == HalfWidth(p, m, atr_val)
        bull_shift == BullShift(p, m)
        inv_offset == InvOffset(p, skew, half_w)
        ask_px == MarginAsk(m, m + half_w + bull_shift - inv_offset)
        bid_px == MarginBid(m, m - half_w + bull_shift - inv_offset)
        base_usd == pct_of(equity * NotionalScale, p.baseOrderPct)
        bid_notional == DivT(base_usd * BidMult(p, skew), 100)
        ask_notional == DivT(base_usd * AskMult(p, skew), 100)
        bid_qty_q == q_qty(c, bid_notional \div bid_px)
        ask_qty_q == q_qty(c, ask_notional \div ask_px)
        ask_px_q0 == q_price_ceil(c, ask_px)
        bid_px_q0 == q_price_floor(c, bid_px)
        bid_px_q == SanityBid(c, m, bid_px_q0)
        ask_px_q == SanityAsk(c, m, ask_px_q0)
        status == IF max_notional <= 0 THEN "bad_max_notional"
                  ELSE IF bid_px <= 0 \/ ask_px <= 0 THEN "bad_px"
                  ELSE "ok"
    IN  IF status # "ok"
        THEN [status |-> status, should_quote |-> ShouldQuote(p, m, prev, tr1, atr_val),
              skew |-> 0, half_w |-> 0,
              bid_px |-> 0, ask_px |-> 0, bid_px_q |-> 0, ask_px_q |-> 0,
              bid_qty_q |-> 0, ask_qty_q |-> 0,
              bid_fixed |-> FALSE, ask_fixed |-> FALSE,
              can_buy |-> FALSE, can_sell |-> FALSE, bid_ok |-> FALSE, ask_ok |-> FALSE]
        ELSE [status |-> "ok", should_quote |-> ShouldQuote(p, m, prev, tr1, atr_val),
              skew |-> skew, half_w |-> half_w,
              bid_px |-> bid_px, ask_px |-> ask_px,
              bid_px_q |-> bid_px_q, ask_px_q |-> ask_px_q,
              bid_qty_q |-> bid_qty_q, ask_qty_q |-> ask_qty_q,
              bid_fixed |-> bid_px_q0 >= m, ask_fixed |-> ask_px_q0 <= m,
              can_buy |-> CanBuy(position_notional, max_notional),
              can_sell |-> CanSell(p, pos, position_notional, max_notional),
              bid_ok |-> SideOk(c, bid_px_q, bid_qty_q),
              ask_ok |-> SideOk(c, ask_px_q, ask_qty_q)]

\* lines 304-391.  status: "ok", or the early return the step takes.
Quote(p, c, m, prev, equity, pos, tr1, atr_val) ==
    LET position_notional == pos * m
        max_notional == MaxNotional(p, equity)
        skew == Skew(position_notional, max_notional)
        half_w == HalfWidth(p, m, atr_val)
        bull_shift == BullShift(p, m)
        inv_offset == InvOffset(p, skew, half_w)
        ask_px == MarginAsk(m, m + half_w + bull_shift - inv_offset)
        bid_px == MarginBid(m, m - half_w + bull_shift - inv_offset)
        base_usd == pct_of(equity * NotionalScale, p.baseOrderPct)
        bid_notional == DivT(base_usd * BidMult(p, skew), 100)
        ask_notional == DivT(base_usd * AskMult(p, skew), 100)
        bid_qty_q == q_qty(c, bid_notional \div bid_px)
        ask_qty_q == q_qty(c, ask_notional \div ask_px)
        ask_px_q0 == q_price_ceil(c, ask_px)
        bid_px_q0 == q_price_floor(c, bid_px)
        bid_px_q == SanityBid(c, m, bid_px_q0)
        ask_px_q == SanityAsk(c, m, ask_px_q0)
        status == IF max_notional <= 0 THEN "bad_max_notional"
                  ELSE IF bid_px <= 0 \/ ask_px <= 0 THEN "bad_px"
                  ELSE IF ask_px_q0 <= 0 \/ bid_px_q0 <= 0 THEN "bad_px_q"
                  ELSE "ok"
    IN  IF status # "ok"
        THEN [status |-> status, should_quote |-> ShouldQuote(p, m, prev, tr1, atr_val),
              skew |-> 0, half_w |-> 0,
              bid_px |-> 0, ask_px |-> 0, bid_px_q |-> 0, ask_px_q |-> 0,
              bid_qty_q |-> 0, ask_qty_q |-> 0,
              bid_fixed |-> FALSE, ask_fixed |-> FALSE,
              can_buy |-> FALSE, can_sell |-> FALSE, bid_ok |-> FALSE, ask_ok |-> FALSE]
        ELSE [status |-> "ok", should_quote |-> ShouldQuote(p, m, prev, tr1, atr_val),
              skew |-> skew, half_w |-> half_w,
              bid_px |-> bid_px, ask_px |-> ask_px,
              bid_px_q |-> bid_px_q, ask_px_q |-> ask_px_q,
              bid_qty_q |-> bid_qty_q, ask_qty_q |-> ask_qty_q,
              bid_fixed |-> bid_px_q0 >= m, ask_fixed |-> ask_px_q0 <= m,
              can_buy |-> CanBuy(position_notional, max_notional),
              can_sell |-> CanSell(p, pos, position_notional, max_notional),
              bid_ok |-> SideOk(c, bid_px_q, bid_qty_q),
              ask_ok |-> SideOk(c, ask_px_q, ask_qty_q)]

-----------------------------------------------------------------------------
(* Bounds of the model and the inputs the environment supplies *)

StartTime == 60          \* time.time() when the engine is constructed
TickStep == 30           \* the clock advances in steps of this many seconds
MaxQuoteCount == 2       \* quote cycles explored per run
MaxRateQuotes == 16      \* quote cycles explored per run of the rate limiter
MaxTime == 125           \* the clock stops here
MaxLive == 3             \* live orders the venue holds at most
MaxFills == 1            \* orders the venue fills per run
MaxLoopTicks == 12       \* half-seconds the main loop is followed for
MaxCalc == 40            \* pure functions are applied to every value up to here
MaxBars == 2             \* bars fed to one volatility estimator
MaxBarTime == 320        \* the clock stops here when bar periods are followed

\* cfg["bot"] as read by env_config.load_env_config (defaults), and a second
\* configuration inside the ranges validate_config accepts.
DefaultParams ==
    [baseOrderPct |-> 10, invBudgetPct |-> 30, slipGuardATR |-> 3,
     longBiasOnly |-> FALSE, atrLen |-> 14, kATR |-> 75,
     minFullBps |-> 50, maxFullBps |-> 400, skewDamp |-> 30, sizeAmp |-> 150,
     useBullBias |-> FALSE, bullBiasBps |-> 25, requoteBps |-> 10]

TightParams ==
    [DefaultParams EXCEPT !.minFullBps = 10, !.skewDamp = 100,
                          !.longBiasOnly = TRUE]

\* Contract specifications the venue may report (tick 0.05 / 0.10, step
\* 0.01 / 0.05, minimum notional 10 USD).
Contracts ==
    {[tick_size |-> 5,  step_size |-> 1, min_qty |-> 1, min_notional |-> 10 * NotionalScale],
     [tick_size |-> 10, step_size |-> 5, min_qty |-> 5, min_notional |-> 10 * NotionalScale]}

NoContract == [tick_size |-> None, step_size |-> None, min_qty |-> None, min_notional |-> None]

-----------------------------------------------------------------------------
(* Engine state *)

\* SideState()
EmptySide == [client_id |-> None, order_id |-> None, price |-> None, qty |-> None]

\* ATR(length)
NewATR == [rma |-> None, prev_close |-> None]

max_orders_per_min == 30

RateWindow == 60

EquityRefreshPeriod == 60

\* bootstrap_atr: atrTimeframe "5m", the bar period of the candles the
\* estimator is warmed up with, in seconds
BarPeriod == 300

\* The answers of the bootstrap's calls, before the bootstrap has run.
NotBooted ==
    [lookup |-> "not_called", leverage |-> "not_called", cancel_all |-> "not_called",
     warmup |-> "not_called", snapshot |-> "not_called"]

\* No pure function has been called on its own.
NoCall == [fn |-> "none"]

InitIn(env) ==
    /\ phase = "init"
    /\ params \in env.params
    /\ contract = NoContract
    /\ bid = EmptySide
    /\ ask = EmptySide
    /\ prev_mid = None
    /\ equity_usd = 0
    /\ pos_qty = 0
    /\ last_bar = [o |-> 0, h |-> 0, l |-> 0, c |-> 0, closed |-> FALSE]
    /\ last_equity_update = 0
    /\ order_count_1min = 0
    /\ last_order_reset = 0
    /\ quote_count = 0
    /\ atr = NewATR
    /\ now = StartTime
    /\ venue_orders = {}
    /\ venue_pos \in env.init_pos
    /\ fills = 0
    /\ last_fetch = None
    /\ boot = NotBooted
    /\ calc_in = NoCall
    /\ calc_out = NoCall
    /\ clock = StartTime * TimeScale
    /\ pc = "loop"
    /\ loop_now = 0
    /\ last_step = 0
    /\ attempt = 0
    /\ shutdown_requested = FALSE
    /\ ret = "none"
    /\ step_start = None
    /\ shutdown_runs = 0
    /\ sleeps_after_flag = 0
    /\ calls = <<>>
    /\ last = [op |-> "new", result |-> "none", m |-> None, count0 |-> 0]

-----------------------------------------------------------------------------
(* Venue and gateway (hibachi_client.py) *)

LiveIds(venue) == {o.id : o \in venue}

IsLive(venue, oid) == oid \in LiveIds(venue)

\* Order identifier the venue assigns: one that is neither live nor still
\* held in an engine record.
FreshId(venue, b, a) ==
    CHOOSE i \in 1..(MaxLive + 3) :
        /\ i \notin LiveIds(venue) \cup {b.order_id, a.order_id}
        /\ \A j \in 1..(i - 1) : j \in LiveIds(venue) \cup {b.order_id, a.order_id}

\* What the SDK's cancel_order can do with an order id.
CancelOutcomes(venue, oid) ==
    IF IsLive(venue, oid) THEN {"CANCELED", "REJECTED", "ERROR"} ELSE {"NOT_FOUND"}

\* HibachiRest.cancel_order: SDK exceptions (order not found, transport
\* error) are caught and returned as status "error".
cancel_order(venue, oid, outcome) ==
    IF outcome = "CANCELED"
    THEN [venue |-> {o \in venue : o.id # oid}, status |-> "CANCELED"]
    ELSE IF outcome = "REJECTED"
    THEN [venue |-> venue, status |-> "REJECTED"]
    ELSE [venue |-> venue, status |-> "error"]

\* What the venue can do with a placement.
PlaceOutcomes == {"ok", "noid", "raise"}

\* HibachiRest.place_order: the response carries the order id ("ok"), carries
\* none ("noid"), or the SDK raises and no order is created ("raise").
place_order(venue, id, side, qty, outcome) ==
    IF outcome = "raise"
    THEN [venue |-> venue, raised |-> TRUE, orderId |-> None]
    ELSE [venue |-> venue \cup {[id |-> id, side |-> side, qty |-> qty]},
          raised |-> FALSE,
          orderId |-> IF outcome = "ok" THEN id ELSE None]

-----------------------------------------------------------------------------
(* Rate limiter and order state machine (hibachi_mm_engine.py) *)

\* A window test that misses the boundary second.
WindowElapsedLate(reset, t) == t - reset > RateWindow

\* _check_rate_limit, line 81: the window has run out
WindowElapsed(reset, t) == t - reset >= RateWindow

\* A limiter that lets the cycle through with the counter on the cap.
check_rate_limit_above(count, reset, t) ==
    LET elapsed == WindowElapsed(reset, t)
        count1 == IF elapsed THEN 0 ELSE count
        reset1 == IF elapsed THEN t ELSE reset
    IN  [ok |-> ~ (count1 > max_orders_per_min), count |-> count1, reset |-> reset1]

\* A check that opens a new window when the old one has elapsed and keeps
\* the count.
check_rate_limit_keeps_count(count, reset, t) ==
    LET elapsed == WindowElapsed(reset, t)
        reset1 == IF elapsed THEN t ELSE reset
    IN  [ok |-> ~ (count >= max_orders_per_min), count |-> count, reset |-> reset1]

\* _check_rate_limit
check_rate_limit(count, reset, t) ==
    LET elapsed == WindowElapsed(reset, t)
        count1 == IF elapsed THEN 0 ELSE count
        reset1 == IF elapsed THEN t ELSE reset
    IN  [ok |-> ~ (count1 >= max_orders_per_min), count |-> count1, reset |-> reset1]

\* _increment_order_count
increment_order_count(count) == count + 1

\* _new_client_id: millisecond timestamp and random suffix
new_client_id(t, rnd) == t * 10000 + rnd

CallRec(op, side, oid, price, qty, res) ==
    [op |-> op, side |-> side, oid |-> oid, price |-> price, qty |-> qty, res |-> res]

\* The part of the state a quote cycle works on.
Cycle(b, a, count, venue, cs) ==
    [bid |-> b, ask |-> a, count |-> count, venue |-> venue, calls |-> cs]

\* A cancel that keeps the record unless the venue confirmed the cancel.
cancel_side_keep(S, side, outcome) ==
    LET st == IF side = "bid" THEN S.bid ELSE S.ask
    IN  IF st.order_id = None THEN S
        ELSE LET r == cancel_order(S.venue, st.order_id, outcome)
                 S1 == [S EXCEPT !.venue = r.venue,
                                 !.calls = Append(@, CallRec("cancel", side, st.order_id,
                                                             None, None, outcome))]
             IN  IF r.status # "CANCELED" THEN S1
                 ELSE IF side = "bid" THEN [S1 EXCEPT !.bid = EmptySide]
                                      ELSE [S1 EXCEPT !.ask = EmptySide]

\* A cancel that forgets the order id and keeps the rest of the record.
cancel_side_id_only(S, side, outcome) ==
    LET st == IF side = "bid" THEN S.bid ELSE S.ask
    IN  IF st.order_id = None THEN S
        ELSE LET r == cancel_order(S.venue, st.order_id, outcome)
                 S1 == [S EXCEPT !.venue = r.venue,
                                 !.calls = Append(@, CallRec("cancel", side, st.order_id,
                                                             None, None, outcome))]
             IN  IF side = "bid" THEN [S1 EXCEPT !.bid.order_id = None]
                                 ELSE [S1 EXCEPT !.ask.order_id = None]

\* _cancel_side
cancel_side(S, side, outcome) ==
    LET st == IF side = "bid" THEN S.bid ELSE S.ask
    IN  IF st.order_id = None THEN S
        ELSE LET r == cancel_order(S.venue, st.order_id, outcome)
                 S1 == [S EXCEPT !.venue = r.venue,
                                 !.calls = Append(@, CallRec("cancel", side, st.order_id,
                                                             None, None, outcome))]
             IN  IF side = "bid" THEN [S1 EXCEPT !.bid = EmptySide]
                                 ELSE [S1 EXCEPT !.ask = EmptySide]

\* _cancel_both
cancel_both(S, cb, ca) == cancel_side(cancel_side(S, "bid", cb), "ask", ca)

\* _place_limit: returns the cycle state after the call and the SideState
\* the method returns.
place_limit(S, c, side, price, qty, outcome, cid) ==
    LET price_s == FormatFixed(price, get_precision(c.tick_size, PriceScale), PriceScale)
        qty_s == FormatFixed(qty, get_precision(c.step_size, QtyScale), QtyScale)
        r == place_order(S.venue, FreshId(S.venue, S.bid, S.ask), side, qty_s, outcome)
        S1 == [S EXCEPT !.venue = r.venue,
                        !.calls = Append(@, CallRec("place", side, r.orderId, price_s, qty_s,
                                                    outcome))]
    IN  IF r.raised
        THEN [S |-> S1, st |-> EmptySide]
        ELSE [S |-> [S1 EXCEPT !.count = increment_order_count(@)],
              st |-> [client_id |-> cid, order_id |-> r.orderId,
                      price |-> price_s, qty |-> qty_s]]

\* A placement that keeps whatever record _place_limit returned.
place_bid_always(S, c, q, outcome, cid) ==
    IF q.can_buy /\ q.bid_ok
    THEN LET r == place_limit(S, c, "BUY", q.bid_px_q, q.bid_qty_q, outcome, cid)
         IN  [r.S EXCEPT !.bid = r.st]
    ELSE S

\* step, lines 400-404: place the bid and keep the record if it has an id
place_bid(S, c, q, outcome, cid) ==
    IF q.can_buy /\ q.bid_ok
    THEN LET r == place_limit(S, c, "BUY", q.bid_px_q, q.bid_qty_q, outcome, cid)
         IN  IF r.st.order_id # None THEN [r.S EXCEPT !.bid = r.st] ELSE r.S
    ELSE S

\* An ask that is placed only when the bid of the same cycle was stored.
place_ask_after_bid(S, c, q, outcome, cid) ==
    IF q.can_sell /\ q.ask_ok /\ S.bid.order_id # None
    THEN LET r == place_limit(S, c, "SELL", q.ask_px_q, q.ask_qty_q, outcome, cid)
         IN  IF r.st.order_id # None THEN [r.S EXCEPT !.ask = r.st] ELSE r.S
    ELSE S

\* step, lines 412-416: place the ask and keep the record if it has an id
place_ask(S, c, q, outcome, cid) ==
    IF q.can_sell /\ q.ask_ok
    THEN LET r == place_limit(S, c, "SELL", q.ask_px_q, q.ask_qty_q, outcome, cid)
         IN  IF r.st.order_id # None THEN [r.S EXCEPT !.ask = r.st] ELSE r.S
    ELSE S

\* A cycle that handles one side after the other: cancel and place the bid,
\* then cancel and place the ask.
quote_cycle_per_side(S, c, q, cb, ca, pb, pa, cidb, cida) ==
    place_ask(cancel_side(place_bid(cancel_side(S, "bid", cb), c, q, pb, cidb),
                          "ask", ca),
              c, q, pa, cida)

\* step, lines 397-416: cancel both, then place each eligible side
quote_cycle(S, c, q, cb, ca, pb, pa, cidb, cida) ==
    place_ask(place_bid(cancel_both(S, cb, ca), c, q, pb, cidb), c, q, pa, cida)

-----------------------------------------------------------------------------
(* Market and account data (hibachi_mm_engine.py) *)

NoTicker == [last |-> None, mark |-> None]

\* get_ticker(): nothing, or last and mark price
Tickers == {NoTicker} \cup {[last |-> x, mark |-> x] : x \in {10000, 10030}}

\* update_bar_from_ticker: the rolling bar after the ticker's last price
update_bar_from_ticker(b, ticker) ==
    IF ticker = NoTicker THEN b
    ELSE IF b.c = 0
    THEN [o |-> ticker.last, h |-> ticker.last, l |-> ticker.last,
          c |-> ticker.last, closed |-> TRUE]
    ELSE [b EXCEPT !.c = ticker.last,
                   !.h = Max2(b.h, ticker.last),
                   !.l = Min2(b.l, ticker.last)]

\* compute_mid: the mid, or None
compute_mid(mid) == IF mid # None /\ mid > 0 THEN mid ELSE None

\* _force_equity_update: acct is the balance or None (the fetch raised);
\* posr says whether the venue reports a position record, or "raise" when
\* get_position raised: the balance is stored by then (line 216), the
\* position and the timestamp (line 222) are not.
force_equity_update(E, acct, posr, vpos, t) ==
    IF acct = None THEN E
    ELSE IF posr = "raise" THEN [E EXCEPT !.equity_usd = acct]
    ELSE [equity_usd |-> acct,
          pos_qty |-> IF posr = "found" THEN vpos ELSE E.pos_qty,
          last_equity_update |-> t]

\* compute_equity_usd(force)
RefreshDue(force, lastupd, t) == force \/ (t - lastupd) >= EquityRefreshPeriod

compute_equity_usd(E, force, acct, posr, vpos, t) ==
    IF RefreshDue(force, E.last_equity_update, t)
    THEN force_equity_update(E, acct, posr, vpos, t)
    ELSE E

Account(eq, pos, upd) ==
    [equity_usd |-> eq, pos_qty |-> pos, last_equity_update |-> upd]

-----------------------------------------------------------------------------
(* Bootstrap (main.py lines 103-114: bootstrap_markets, bootstrap_atr,    *)
(* bootstrap_equity_and_pos)                                               *)

LeverageInputs == {"ok", "not_supported", "raise"}

\* get_klines(): a market that has not moved
QuietKlines ==
    <<[h |-> 10000, l |-> 10000, c |-> 10000], [h |-> 10000, l |-> 10000, c |-> 10000]>>

\* bootstrap_atr: feed every candle as a closed bar
RECURSIVE bootstrap_atr(_, _, _)
bootstrap_atr(a, len, klines) ==
    IF klines = <<>> THEN a
    ELSE bootstrap_atr(ATR_update_bar(a, len, Head(klines).h, Head(klines).l,
                                      Head(klines).c, TRUE).atr,
                       len, Tail(klines))

\* bootstrap_equity_and_pos: acct is the balance (the caller aborts on None)
bootstrap_equity_and_pos(E, acct, posr, vpos) ==
    [equity_usd |-> acct,
     pos_qty |-> IF posr = "found" THEN vpos ELSE 0,
     last_equity_update |-> E.last_equity_update]

\* lines 94-111: get_contract_info() raised (the exchange-info fetch behind
\* it is not guarded), or the reading of the contract's fields did
ContractLookupRaises ==
    [tick_size |-> 0 - 2, step_size |-> 0 - 2, min_qty |-> 0 - 2, min_notional |-> 0 - 2]

\* A bootstrap that goes on when the leverage call raised.
bootstrap_result_tolerant(ci, lev, acct) ==
    IF ci = ContractLookupRaises THEN "lookup_failed"
    ELSE IF ci = NoContract THEN "no_contract"
    ELSE IF acct = None THEN "snapshot_failed"
    ELSE "running"

\* main.py lines 103-114 over bootstrap_markets, bootstrap_atr and
\* bootstrap_equity_and_pos: the first call that raises ends the startup.
bootstrap_result(ci, lev, acct) ==
    IF ci = ContractLookupRaises THEN "lookup_failed"
    ELSE IF ci = NoContract THEN "no_contract"
    ELSE IF lev = "raise" THEN "leverage_failed"
    ELSE IF acct = None THEN "snapshot_failed"
    ELSE "running"

BootstrapIn(env) ==
    /\ phase = "init"
    /\ \E ci \in env.contracts, lev \in env.leverages, ca \in env.cancel_alls,
          kl \in env.klines, acct \in env.accounts, posr \in env.positions :
        LET E0 == Account(equity_usd, pos_qty, last_equity_update)
            E == bootstrap_equity_and_pos(E0, acct, posr, venue_pos)
            r == bootstrap_result(ci, lev, acct)
            has_contract == r \notin {"lookup_failed", "no_contract"}
            past_leverage == r \in {"snapshot_failed", "running"}
        IN  /\ phase' = IF r = "running" THEN "running" ELSE "aborted"
            /\ contract' = IF has_contract THEN ci ELSE contract
            /\ venue_orders' = IF past_leverage /\ ca = "ok" THEN {} ELSE venue_orders
            /\ atr' = IF past_leverage THEN bootstrap_atr(atr, params.atrLen, kl) ELSE atr
            /\ equity_usd' = IF r = "running" THEN E.equity_usd ELSE equity_usd
            /\ pos_qty' = IF r = "running" THEN E.pos_qty ELSE pos_qty
            /\ boot' = [lookup |-> IF ci = ContractLookupRaises THEN "raise"
                                   ELSE IF ci = NoContract THEN "none" ELSE "found",
                        leverage |-> IF has_contract THEN lev ELSE "not_called",
                        cancel_all |-> IF past_leverage THEN ca ELSE "not_called",
                        warmup |-> IF ~ past_leverage THEN "not_called"
                                   ELSE IF kl = <<>> THEN "failed" ELSE "ok",
                        snapshot |-> IF ~ past_leverage THEN "not_called"
                                     ELSE IF acct = None THEN "raise" ELSE "ok"]
            /\ last' = [op |-> "bootstrap", result |-> r, m |-> None, count0 |-> order_count_1min]
    /\ last_fetch' = IF last'.result \in {"running", "snapshot_failed"} THEN now ELSE last_fetch
    /\ calls' = <<>>
    /\ UNCHANGED <<params, bid, ask, prev_mid, last_bar, last_equity_update,
                   order_count_1min, last_order_reset, quote_count, now,
                   venue_pos, fills, main_vars, calc_in, calc_out>>

-----------------------------------------------------------------------------
(* HibachiMarketMakerEngine.step *)

\* Outcomes the environment can choose for a cancel of this record / for a
\* placement that is (not) made.
CancelSet(env, st) ==
    IF st.order_id = None THEN {"none"}
    ELSE CancelOutcomes(venue_orders, st.order_id) \cap env.cancels

PlaceSet(outcomes, placing) == IF placing THEN PlaceOutcomes \cap outcomes ELSE {"none"}

SuffixSet(env, placing) == IF placing THEN env.suffixes ELSE {None}

FetchSet(env, due) ==
    IF due
    THEN {<<b, pr>> : b \in env.accounts \ {None},
                      pr \in env.positions
                             \cup (IF "position_raises" \in DOMAIN env THEN {"raise"} ELSE {})}
         \cup (IF None \in env.accounts THEN {<<None, "none">>} ELSE {})
    ELSE {<<None, "none">>}

\* A step that records its mid as prev_mid however it ends.
StepEndsRecordingMid(result, m, bar, a, E, count, reset, S, pm, qc) ==
    /\ last_bar' = bar
    /\ atr' = a
    /\ equity_usd' = E.equity_usd
    /\ pos_qty' = E.pos_qty
    /\ last_equity_update' = E.last_equity_update
    /\ order_count_1min' = count
    /\ last_order_reset' = reset
    /\ bid' = S.bid
    /\ ask' = S.ask
    /\ venue_orders' = S.venue
    /\ calls' = S.calls
    /\ prev_mid' = IF m # None THEN m ELSE pm
    /\ quote_count' = qc
    /\ last' = [op |-> "step", result |-> result, m |-> m, count0 |-> order_count_1min]
    /\ UNCHANGED <<phase, params, contract, now, venue_pos, fills, boot, calc_in, calc_out>>

\* The step ends: everything the step has written so far is kept.
StepEnds(result, m, bar, a, E, count, reset, S, pm, qc) ==
    /\ last_bar' = bar
    /\ atr' = a
    /\ equity_usd' = E.equity_usd
    /\ pos_qty' = E.pos_qty
    /\ last_equity_update' = E.last_equity_update
    /\ order_count_1min' = count
    /\ last_order_reset' = reset
    /\ bid' = S.bid
    /\ ask' = S.ask
    /\ venue_orders' = S.venue
    /\ calls' = S.calls
    /\ prev_mid' = pm
    /\ quote_count' = qc
    /\ last' = [op |-> "step", result |-> result, m |-> m, count0 |-> order_count_1min]
    /\ UNCHANGED <<phase, params, contract, now, venue_pos, fills, boot, calc_in, calc_out>>

\* lines 304, 229: the step got as far as compute_equity_usd and the
\* refresh was due, so it asked the gateway for the account.
StepFetches ==
    /\ contract # NoContract
    /\ last'.m # None
    /\ RefreshDue(FALSE, last_equity_update, now)

step(env) ==
    /\ phase \in {"init", "running"}
    /\ quote_count < env.max_quotes
    /\ LET S0 == Cycle(bid, ask, order_count_1min, venue_orders, <<>>)
           E0 == Account(equity_usd, pos_qty, last_equity_update)
       IN
       IF contract = NoContract
       THEN StepEnds("no_contract", None, last_bar, atr, E0,
                     order_count_1min, last_order_reset, S0, prev_mid, quote_count)
       ELSE \E ticker \in env.tickers, mid \in env.mids :
         LET bar == update_bar_from_ticker(last_bar, ticker)
             m == compute_mid(mid)
         IN
         IF m = None
         THEN StepEnds("no_mid", None, bar, atr, E0,
                       order_count_1min, last_order_reset, S0, prev_mid, quote_count)
         ELSE
           LET sv == StepVolatility(atr, params.atrLen, bar, m)
           IN
           \E f \in FetchSet(env, RefreshDue(FALSE, last_equity_update, now)) :
             LET E == compute_equity_usd(E0, FALSE, f[1], f[2], venue_pos, now)
                 q == Quote(params, contract, m, prev_mid, E.equity_usd, E.pos_qty,
                            sv.tr1, sv.atr_val)
                 rl == check_rate_limit(order_count_1min, last_order_reset, now)
             IN
             IF q.status # "ok"
             THEN StepEnds(q.status, m, bar, sv.atr, E,
                           order_count_1min, last_order_reset, S0, prev_mid, quote_count)
             ELSE IF ~ q.should_quote
             THEN StepEnds("no_requote", m, bar, sv.atr, E,
                           order_count_1min, last_order_reset, S0, prev_mid, quote_count)
             ELSE IF ~ rl.ok
             THEN StepEnds("rate_limited", m, bar, sv.atr, E,
                           rl.count, rl.reset, S0, prev_mid, quote_count)
             ELSE
               \E cb \in CancelSet(env, bid), ca \in CancelSet(env, ask),
                  pb \in PlaceSet(env.bid_places, q.can_buy /\ q.bid_ok),
                  pa \in PlaceSet(env.ask_places, q.can_sell /\ q.ask_ok),
                  rb \in SuffixSet(env, q.can_buy /\ q.bid_ok),
                  ra \in SuffixSet(env, q.can_sell /\ q.ask_ok) :
                 LET S == quote_cycle([S0 EXCEPT !.count = rl.count], contract, q,
                                      cb, ca, pb, pa,
                                      new_client_id(now, rb), new_client_id(now, ra))
                 IN  /\ Cardinality(S.venue) <= MaxLive
                     /\ StepEnds("quoted", m, bar, sv.atr, E,
                                 S.count, rl.reset, S, m, quote_count + 1)
    /\ last_fetch' = IF StepFetches THEN now ELSE last_fetch

\* A step of the engine on its own.
StepIn(env) == step(env) /\ UNCHANGED main_vars

-----------------------------------------------------------------------------
(* Environment *)

\* The clock advances.
TickIn(env) ==
    /\ now + TickStep <= env.max_time
    /\ now' = now + TickStep
    /\ clock' = now' * TimeScale
    /\ calls' = <<>>
    /\ last' = [op |-> "tick", result |-> "none", m |-> None, count0 |-> order_count_1min]
    /\ UNCHANGED <<engine_vars, venue_orders, venue_pos, fills, last_fetch, boot, calc_in, calc_out,
                   pc, loop_now, last_step, attempt, shutdown_requested,
                   ret, step_start, shutdown_runs, sleeps_after_flag>>

\* A live order is filled on the venue: it leaves the book and the
\* account's position moves by its quantity.
Fill ==
    /\ fills < MaxFills
    /\ fills' = fills + 1
    /\ \E o \in venue_orders :
        /\ venue_orders' = venue_orders \ {o}
        /\ venue_pos' = IF o.side = "BUY" THEN venue_pos + o.qty ELSE venue_pos - o.qty
    /\ calls' = <<>>
    /\ last' = [op |-> "fill", result |-> "none", m |-> None, count0 |-> order_count_1min]
    /\ UNCHANGED <<engine_vars, now, last_fetch, boot, calc_in, calc_out, main_vars>>

-----------------------------------------------------------------------------
(* main.py: the scheduler *)

max_retries == 3

\* line 120, in ticks
loop_interval == 5 * TimeScale

\* line 129: time.sleep(0.5), in ticks
poll_sleep == TimeScale \div 2

\* A backoff that waits one second whatever the attempt.
BackoffFlat(k) == TimeScale

\* line 50: time.sleep(2 ** attempt), in ticks
BackoffDelay(k) == (2 ^ k) * TimeScale

\* A loop test that ignores the flag.
LoopContinuesAlways(flag) == TRUE

\* line 124: while not shutdown_requested
LoopContinues(flag) == ~ flag

\* How a call of mm.step() can end: it returns, it raises
\* requests.exceptions.ConnectionError, it raises another Exception.
StepOutcomes == {"ok", "connection_error", "error"}

\* A transition of main() that does not enter the engine.
NoEngineCall(op, result) ==
    /\ calls' = <<>>
    /\ last' = [op |-> op, result |-> result, m |-> None, count0 |-> order_count_1min]
    /\ UNCHANGED <<engine_vars, venue_orders, venue_pos, fills, last_fetch, boot, calc_in, calc_out>>

\* time.sleep(d): the clock moves on by d ticks.  The loop is followed up
\* to env.max_clock, and to its end once shutdown has been requested.
SleepFor(env, d) ==
    /\ shutdown_requested \/ clock + d <= env.max_clock
    /\ clock' = clock + d
    /\ now' = clock' \div TimeScale

\* A handler that raises into the loop, as the default SIGINT handler does.
SignalRaises ==
    /\ phase # "aborted"
    /\ pc # "done"
    /\ ~ shutdown_requested
    /\ shutdown_requested' = TRUE
    /\ pc' = IF phase = "running" /\ pc # "shutdown" THEN "shutdown" ELSE pc
    /\ NoEngineCall("signal", "none")
    /\ UNCHANGED <<now, clock, loop_now, last_step, attempt, ret, step_start,
                   shutdown_runs, sleeps_after_flag>>

\* signal_handler
Signal ==
    /\ phase # "aborted"
    /\ pc # "done"
    /\ ~ shutdown_requested
    /\ shutdown_requested' = TRUE
    /\ NoEngineCall("signal", "none")
    /\ UNCHANGED <<now, clock, pc, loop_now, last_step, attempt, ret, step_start,
                   shutdown_runs, sleeps_after_flag>>

\* line 124: the loop tests the flag and leaves when it is set.
LoopTest ==
    /\ phase = "running"
    /\ pc = "loop"
    /\ pc' = IF LoopContinues(shutdown_requested) THEN "due" ELSE "shutdown"
    /\ NoEngineCall("loop", IF LoopContinues(shutdown_requested) THEN "continue" ELSE "exit")
    /\ UNCHANGED <<now, clock, loop_now, last_step, attempt, shutdown_requested,
                   ret, step_start, shutdown_runs, sleeps_after_flag>>

\* lines 125-127: the loop reads the clock and decides whether a step is
\* due; if so step_with_retry is called.
StepDue ==
    /\ pc = "due"
    /\ loop_now' = clock
    /\ IF clock - last_step >= loop_interval
       THEN /\ pc' = "attempt"
            /\ attempt' = 0
            /\ ret' = "running"
            /\ step_start' = clock
            /\ NoEngineCall("loop", "step_due")
       ELSE /\ pc' = "sleep"
            /\ NoEngineCall("loop", "not_due")
            /\ UNCHANGED <<attempt, ret, step_start>>
    /\ UNCHANGED <<now, clock, last_step, shutdown_requested, shutdown_runs,
                   sleeps_after_flag>>

\* A step_with_retry that lets an application error escape.
after_attempt_fatal(out, k) ==
    IF out = "connection_error" /\ k < max_retries - 1 THEN "backoff"
    ELSE IF out = "error" THEN "shutdown"
    ELSE "sleep"

\* lines 45-57: where control goes when the attempt's call of mm.step() has
\* ended: to the backoff before another attempt, or back to the loop.
after_attempt(out, k) ==
    IF out = "connection_error" /\ k < max_retries - 1 THEN "backoff" ELSE "sleep"

\* lines 42-57 and 127-128: one attempt of step_with_retry.  An exception
\* is taken to leave mm.step() at its first gateway call, before the
\* engine has written anything.
Attempt(env) ==
    /\ pc = "attempt"
    /\ \E out \in env.outcomes :
        IF out = "ok"
        THEN /\ step(env)
             /\ pc' = after_attempt(out, attempt)
             /\ ret' = "True"
             /\ last_step' = loop_now
        ELSE /\ NoEngineCall("step_raised", out)
             /\ UNCHANGED <<now, last_step>>
             /\ pc' = after_attempt(out, attempt)
             /\ ret' = IF pc' = "backoff" THEN ret
                       ELSE IF out = "error" THEN "error" ELSE "exhausted"
    /\ UNCHANGED <<clock, loop_now, attempt, shutdown_requested, step_start,
                   shutdown_runs, sleeps_after_flag>>

\* lines 44-54: the attempt's call of mm.step() has returned or raised.
AttemptEnds == pc = "attempt" /\ pc' \in {"backoff", "sleep", "shutdown"}

\* lines 49-51: the wait between two attempts, then the next attempt.
Backoff(env) ==
    /\ pc = "backoff"
    /\ SleepFor(env, BackoffDelay(attempt))
    /\ attempt' = attempt + 1
    /\ pc' = "attempt"
    /\ NoEngineCall("backoff", "none")
    /\ UNCHANGED <<loop_now, last_step, shutdown_requested, ret, step_start,
                   shutdown_runs, sleeps_after_flag>>

\* line 129
Sleep(env) ==
    /\ pc = "sleep"
    /\ SleepFor(env, poll_sleep)
    /\ pc' = "loop"
    /\ sleeps_after_flag' = IF shutdown_requested THEN sleeps_after_flag + 1
                            ELSE sleeps_after_flag
    /\ NoEngineCall("sleep", "none")
    /\ UNCHANGED <<loop_now, last_step, attempt, shutdown_requested, ret, step_start,
                   shutdown_runs>>

\* lines 123, 130-132: an exception raised by a statement of the loop
\* itself leaves the loop; the finally block follows.
LoopRaises ==
    /\ phase = "running"
    /\ pc \in {"due", "sleep"}
    /\ pc' = "shutdown"
    /\ NoEngineCall("loop", "raised")
    /\ UNCHANGED <<now, clock, loop_now, last_step, attempt, shutdown_requested,
                   ret, step_start, shutdown_runs, sleeps_after_flag>>

\* A shutdown sequence that gives up the refresh when a cancel failed.
shutdown_calls_strict(S, f) ==
    IF \E i \in 1 .. Len(S.calls) : S.calls[i].res # "CANCELED"
    THEN S.calls
    ELSE Append(S.calls, CallRec("fetch", "none", None, None, None,
                                 IF f[1] = None THEN "failed" ELSE "ok"))

\* lines 135-137: the gateway calls of the shutdown sequence, the cancels
\* of _cancel_both and then the fetch of _force_equity_update.
shutdown_calls(S, f) ==
    Append(S.calls, CallRec("fetch", "none", None, None, None,
                            IF f[1] = None THEN "failed" ELSE "ok"))

\* lines 132-142: _cancel_both, a second's sleep, _force_equity_update.
Shutdown(env) ==
    /\ pc = "shutdown"
    /\ pc' = "done"
    /\ shutdown_runs' = shutdown_runs + 1
    /\ clock' = clock + TimeScale
    /\ now' = clock' \div TimeScale
    /\ \E cb \in CancelSet(env, bid), ca \in CancelSet(env, ask),
          f \in FetchSet(env, TRUE) :
        LET S == cancel_both(Cycle(bid, ask, order_count_1min, venue_orders, <<>>), cb, ca)
            E == force_equity_update(Account(equity_usd, pos_qty, last_equity_update),
                                     f[1], f[2], venue_pos, now')
        IN  /\ bid' = S.bid
            /\ ask' = S.ask
            /\ venue_orders' = S.venue
            /\ calls' = shutdown_calls(S, f)
            /\ equity_usd' = E.equity_usd
            /\ pos_qty' = E.pos_qty
            /\ last_equity_update' = E.last_equity_update
    /\ last' = [op |-> "shutdown", result |-> "none", m |-> None, count0 |-> order_count_1min]
    /\ UNCHANGED <<phase, params, contract, prev_mid, last_bar, order_count_1min,
                   last_order_reset, quote_count, atr, venue_pos, fills, last_fetch, boot, calc_in, calc_out,
                   loop_now, last_step, attempt, shutdown_requested, ret, step_start,
                   sleeps_after_flag>>

-----------------------------------------------------------------------------
(* Pure functions of utils.py and of the quote calculation, called on     *)
(* their own                                                               *)

\* ContractSpec(tick_size=s, step_size=s).q_price_floor(v), .q_price_ceil(v)
\* and .q_qty(v).  The values are prices and quantities, never negative
\* (step returns on a price <= 0 before quantizing, lines 348-350).  With a
\* unit of 0.001 and an increment of 10 the samples are 100.004 and 100.00
\* at tick 0.01; with a unit of 0.0001, 1.2349 at step 0.001.
Quantize ==
    /\ \E v \in ((0 .. MaxCalc) \cup {100000, 100004, 12349}), s \in {1, 5, 10} :
         LET c == [tick_size |-> s, step_size |-> s, min_qty |-> s, min_notional |-> 0]
         IN  /\ calc_in' = [fn |-> "quantize", v |-> v, s |-> s]
             /\ calc_out' = [floor |-> q_price_floor(c, v),
                             ceil |-> q_price_ceil(c, v),
                             qty |-> q_qty(c, v)]
    /\ UNCHANGED prog_vars

\* Bars fed to the estimator, [h, l, c]: 105/95, 108/98, a flat bar, a bar
\* that gaps up from a close of 100, and a narrow one.
Bars ==
    {[h |-> 10500, l |-> 9500,  c |-> 10000],
     [h |-> 10800, l |-> 9800,  c |-> 10400],
     [h |-> 10000, l |-> 10000, c |-> 10000],
     [h |-> 11200, l |-> 10400, c |-> 10800],
     [h |-> 10300, l |-> 9900,  c |-> 9900]}

\* ATR.update_bar(o, h, l, c, closed) on a new estimator, or on the one the
\* previous call left behind; the lengths are the configured default and a
\* short one
AtrUpdate ==
    /\ \E len \in {2, 14}, b \in Bars, closed \in BOOLEAN, fresh \in BOOLEAN :
         /\ ~ fresh => /\ calc_in.fn = "update_bar"
                       /\ calc_in.len = len
                       /\ calc_in.n < MaxBars
         /\ LET a == IF fresh THEN NewATR ELSE calc_out.atr
                n == IF fresh THEN 1 ELSE calc_in.n + 1
                r == ATR_update_bar(a, len, b.h, b.l, b.c, closed)
            IN  /\ calc_in' = [fn |-> "update_bar", len |-> len, n |-> n,
                               rma |-> a.rma, prev_close |-> a.prev_close,
                               h |-> b.h, l |-> b.l, c |-> b.c, closed |-> closed]
                /\ calc_out' = [atr |-> r.atr, rma |-> r.rma, tr |-> r.tr]
    /\ UNCHANGED prog_vars

\* step, lines 304-312, on its own: position_notional, max_notional, skew.
\* Equity in USD, budget percentages inside the range validate_config
\* accepts, signed position sizes at mid prices near 100, and positions of
\* 0, 0.05, 0.10 and -0.05 at a mid price of 50000.00.
SkewOf ==
    /\ \E equity \in {1, 500, 2000, 10000}, pct \in {10, 50, 100},
          x \in ({0 - 650, 0 - 5, 0, 5, 10, 300, 650} \X {10000, 10030})
                \cup ({0 - 5, 0, 5, 10} \X {5000000}) :
         LET p == [DefaultParams EXCEPT !.invBudgetPct = pct]
             pos == x[1]
             m == x[2]
             position_notional == pos * m
             max_notional == MaxNotional(p, equity)
         IN  /\ calc_in' = [fn |-> "skew", equity |-> equity, invBudgetPct |-> pct,
                            pos_qty |-> pos, mid |-> m]
             /\ calc_out' = [skew |-> Skew(position_notional, max_notional)]
    /\ UNCHANGED prog_vars

\* step, lines 341-343, on its own: ask_mult, bid_mult, for sizeAmp values
\* validate_config accepts (>= 0.5) and every skew the clamp can return
Multipliers ==
    /\ \E amp \in {50, 150, 300}, skew \in ((0 - 100) .. 100) :
         LET p == [DefaultParams EXCEPT !.sizeAmp = amp]
         IN  /\ calc_in' = [fn |-> "multipliers", sizeAmp |-> amp, skew |-> skew]
             /\ calc_out' = [ask_mult |-> AskMult(p, skew), bid_mult |-> BidMult(p, skew)]
    /\ UNCHANGED prog_vars

-----------------------------------------------------------------------------
(* Specifications *)

\* Spec: the order state machine.  Every answer the venue can give to a
\* cancel and to a placement, fills, a mid that moves or is missing, a
\* steady account; the clock stands still.
OrdersEnv ==
    [params |-> {DefaultParams}, init_pos |-> {0},
     contracts |-> {NoContract, CHOOSE c \in Contracts : c.tick_size = 5},
     leverages |-> LeverageInputs, cancel_alls |-> {"ok"}, klines |-> {<<>>},
     accounts |-> {2000}, positions |-> {"found"},
     tickers |-> {NoTicker}, mids |-> {None, 10000, 10030},
     cancels |-> {"CANCELED", "REJECTED", "ERROR", "NOT_FOUND"},
     bid_places |-> PlaceOutcomes, ask_places |-> PlaceOutcomes, suffixes |-> {1000},
     max_quotes |-> MaxQuoteCount]

Next == BootstrapIn(OrdersEnv) \/ StepIn(OrdersEnv) \/ Fill

Spec == InitIn(OrdersEnv) /\ [][Next]_vars

\* SpecAccount: the account refresh.  Balance fetches that fail or report
\* a smaller or larger balance, position records that are missing, fills,
\* cancels that fail, a clock that advances; every placement is accepted.
AccountEnv ==
    [params |-> {DefaultParams}, init_pos |-> {0},
     contracts |-> {CHOOSE c \in Contracts : c.tick_size = 5},
     leverages |-> {"ok"}, cancel_alls |-> {"ok"}, klines |-> {<<>>},
     accounts |-> {None, 500, 2000}, positions |-> {"none", "found"},
     tickers |-> {NoTicker}, mids |-> {10000, 10030},
     cancels |-> {"CANCELED", "ERROR", "NOT_FOUND"},
     bid_places |-> {"ok"}, ask_places |-> {"ok"}, suffixes |-> {1000},
     max_quotes |-> MaxQuoteCount, max_time |-> MaxTime]

NextAccount == BootstrapIn(AccountEnv) \/ StepIn(AccountEnv) \/ TickIn(AccountEnv) \/ Fill

SpecAccount == InitIn(AccountEnv) /\ [][NextAccount]_vars

\* SpecSize: the minimum-size checks.  Contracts whose minimum notional or
\* minimum quantity lies between the sizes of the two sides, an account
\* that starts flat, long or short, placements that succeed or fail.
SizeEnv ==
    [params |-> {DefaultParams}, init_pos |-> {0 - 300, 0, 300},
     contracts |-> {[tick_size |-> 5, step_size |-> 1, min_qty |-> 1,
                     min_notional |-> 30 * NotionalScale],
                    [tick_size |-> 5, step_size |-> 1, min_qty |-> 25,
                     min_notional |-> 10 * NotionalScale]},
     leverages |-> {"ok"}, cancel_alls |-> {"ok"}, klines |-> {<<>>},
     accounts |-> {2000}, positions |-> {"found"},
     tickers |-> {NoTicker}, mids |-> {10000, 10030},
     cancels |-> {"CANCELED"},
     bid_places |-> PlaceOutcomes, ask_places |-> PlaceOutcomes, suffixes |-> {1000},
     max_quotes |-> MaxQuoteCount]

NextSize == BootstrapIn(SizeEnv) \/ StepIn(SizeEnv) \/ Fill

SpecSize == InitIn(SizeEnv) /\ [][NextSize]_vars

\* SpecVol: the requote decision.  A ticker and a mid that jump, creep by
\* exactly the requote threshold, stay put or are missing, with and without
\* a quiet price history; one configuration, a flat account, a venue that
\* accepts everything.
VolEnv ==
    [params |-> {DefaultParams}, init_pos |-> {0},
     contracts |-> {CHOOSE c \in Contracts : c.tick_size = 5},
     leverages |-> {"ok"}, cancel_alls |-> {"ok"}, klines |-> {<<>>, QuietKlines},
     accounts |-> {2000}, positions |-> {"found"},
     tickers |-> Tickers, mids |-> {None, 10000, 10010, 10030},
     cancels |-> {"CANCELED"},
     bid_places |-> {"ok"}, ask_places |-> {"ok"}, suffixes |-> {1000},
     max_quotes |-> MaxQuoteCount]

NextVol == BootstrapIn(VolEnv) \/ StepIn(VolEnv)

SpecVol == InitIn(VolEnv) /\ [][NextVol]_vars

\* SpecRate: the rate limiter.  A mid that moves, stays or is missing, one
\* configuration, placements that are accepted or raise, and enough quote
\* cycles and time to fill a window and to see it elapse.
RateEnv ==
    [params |-> {DefaultParams}, init_pos |-> {0},
     contracts |-> {CHOOSE c \in Contracts : c.tick_size = 5},
     leverages |-> {"ok"}, cancel_alls |-> {"ok"}, klines |-> {<<>>},
     accounts |-> {2000}, positions |-> {"found"},
     tickers |-> {NoTicker}, mids |-> {None, 10000, 10030},
     cancels |-> {"CANCELED"},
     bid_places |-> {"ok"}, ask_places |-> {"ok", "raise"}, suffixes |-> {1000},
     max_quotes |-> MaxRateQuotes, max_time |-> MaxTime]

NextRate == BootstrapIn(RateEnv) \/ StepIn(RateEnv) \/ TickIn(RateEnv)

SpecRate == InitIn(RateEnv) /\ [][NextRate]_vars

\* SpecQuote: the quote calculation.  Every configuration, contract,
\* starting position, balance, ticker and mid; a venue that accepts every
\* placement and every cancel.
QuoteEnv ==
    [params |-> {DefaultParams, TightParams}, init_pos |-> {0 - 650, 0, 300, 650},
     contracts |-> Contracts, leverages |-> {"ok"}, cancel_alls |-> {"ok"},
     klines |-> {<<>>, <<[h |-> 10030, l |-> 10000, c |-> 10030],
                         [h |-> 10030, l |-> 10004, c |-> 10004]>>},
     accounts |-> {2000}, positions |-> {"found"},
     tickers |-> Tickers, mids |-> {10000, 10004, 10030},
     cancels |-> {"CANCELED"},
     bid_places |-> {"ok"}, ask_places |-> {"ok"}, suffixes |-> {1000},
     max_quotes |-> MaxQuoteCount]

NextQuote == BootstrapIn(QuoteEnv) \/ StepIn(QuoteEnv)

SpecQuote == InitIn(QuoteEnv) /\ [][NextQuote]_vars

\* SpecMain: the scheduler of main.py around the engine.  Steps that
\* return, that lose the connection or that fail otherwise, a shutdown
\* signal at any moment, a steady market and account.
MainEnv ==
    [params |-> {DefaultParams}, init_pos |-> {0},
     contracts |-> {CHOOSE c \in Contracts : c.tick_size = 5},
     leverages |-> {"ok"}, cancel_alls |-> {"ok"}, klines |-> {<<>>},
     accounts |-> {2000}, positions |-> {"found"},
     tickers |-> {NoTicker}, mids |-> {10000},
     cancels |-> {"CANCELED", "ERROR"},
     bid_places |-> {"ok"}, ask_places |-> {"ok"}, suffixes |-> {1000},
     max_quotes |-> MaxRateQuotes, outcomes |-> StepOutcomes,
     max_clock |-> StartTime * TimeScale + MaxLoopTicks]

NextMain ==
    BootstrapIn(MainEnv) \/ LoopTest \/ StepDue \/ Attempt(MainEnv) \/ Backoff(MainEnv) \/ Sleep(MainEnv)
    \/ Signal \/ Shutdown(MainEnv)

SpecMain == InitIn(MainEnv) /\ [][NextMain]_vars

\* main() is one sequential program: each of its statements is executed
\* once control has reached it, and a call of mm.step() returns or raises
\* (the gateway's requests time out).  The signal is the environment's and
\* is not forced.
SpecMainFair ==
    /\ SpecMain
    /\ WF_vars(BootstrapIn(MainEnv))
    /\ WF_vars(LoopTest)
    /\ WF_vars(StepDue)
    /\ WF_pc(AttemptEnds)
    /\ WF_vars(Backoff(MainEnv))
    /\ WF_vars(Sleep(MainEnv))
    /\ WF_vars(Shutdown(MainEnv))

\* SpecExit: the ways out of the main loop.  A shutdown signal or an
\* exception raised by the loop, orders whose cancel fails at shutdown, an
\* account fetch that fails.
ExitEnv ==
    [params |-> {DefaultParams}, init_pos |-> {0},
     contracts |-> {CHOOSE c \in Contracts : c.tick_size = 5},
     leverages |-> {"ok"}, cancel_alls |-> {"ok"}, klines |-> {<<>>},
     accounts |-> {None, 2000}, positions |-> {"found"},
     tickers |-> {NoTicker}, mids |-> {10000},
     cancels |-> {"CANCELED", "ERROR"},
     bid_places |-> {"ok"}, ask_places |-> {"ok", "raise"}, suffixes |-> {1000},
     max_quotes |-> MaxRateQuotes, outcomes |-> {"ok", "error"},
     max_clock |-> StartTime * TimeScale + MaxLoopTicks]

NextExit ==
    BootstrapIn(ExitEnv) \/ LoopTest \/ StepDue \/ Attempt(ExitEnv) \/ Sleep(ExitEnv)
    \/ Signal \/ LoopRaises \/ Shutdown(ExitEnv)

SpecExit == InitIn(ExitEnv) /\ [][NextExit]_vars

\* The finally block is executed once control has reached it.
SpecExitFair == SpecExit /\ WF_vars(Shutdown(ExitEnv))

\* SpecFault: steps that fail in every way.  A mid that is missing, an
\* account fetch that fails, cancels and placements the venue refuses or
\* that raise, a step that loses the connection or raises.
FaultEnv ==
    [params |-> {DefaultParams}, init_pos |-> {0},
     contracts |-> {CHOOSE c \in Contracts : c.tick_size = 5},
     leverages |-> {"ok"}, cancel_alls |-> {"ok"}, klines |-> {<<>>},
     accounts |-> {None, 2000}, positions |-> {"found"},
     tickers |-> {NoTicker}, mids |-> {None, 10000, 10030},
     cancels |-> {"REJECTED", "ERROR"},
     bid_places |-> {"ok", "raise"}, ask_places |-> {"ok", "noid"}, suffixes |-> {1000},
     max_quotes |-> MaxQuoteCount, outcomes |-> StepOutcomes,
     max_clock |-> StartTime * TimeScale + MaxLoopTicks]

NextFault ==
    BootstrapIn(FaultEnv) \/ LoopTest \/ StepDue \/ Attempt(FaultEnv) \/ Backoff(FaultEnv)
    \/ Sleep(FaultEnv) \/ Signal \/ Shutdown(FaultEnv)

SpecFault == InitIn(FaultEnv) /\ [][NextFault]_vars

\* As SpecMainFair: main() is one sequential program and a call of
\* mm.step() returns or raises.
SpecFaultFair ==
    /\ SpecFault
    /\ WF_vars(LoopTest)
    /\ WF_vars(StepDue)
    /\ WF_pc(AttemptEnds)
    /\ WF_vars(Backoff(FaultEnv))
    /\ WF_vars(Sleep(FaultEnv))
    /\ WF_vars(Shutdown(FaultEnv))

\* SpecBoot: the startup.  A contract lookup that finds the contract,
\* finds nothing or raises, every answer of the leverage call, a cancel-all
\* and a warm-up that fail, a snapshot that raises; then the main loop.
BootEnv ==
    [params |-> {DefaultParams}, init_pos |-> {0},
     contracts |-> {NoContract, ContractLookupRaises,
                    CHOOSE c \in Contracts : c.tick_size = 5},
     leverages |-> LeverageInputs, cancel_alls |-> {"ok", "error"},
     klines |-> {<<>>, QuietKlines},
     accounts |-> {None, 2000}, positions |-> {"found"},
     tickers |-> {NoTicker}, mids |-> {10000},
     cancels |-> {"CANCELED"},
     bid_places |-> {"ok"}, ask_places |-> {"ok"}, suffixes |-> {1000},
     max_quotes |-> MaxRateQuotes, outcomes |-> {"ok", "error"},
     max_clock |-> StartTime * TimeScale + MaxLoopTicks]

NextBoot ==
    BootstrapIn(BootEnv) \/ LoopTest \/ StepDue \/ Attempt(BootEnv) \/ Sleep(BootEnv)
    \/ Signal \/ Shutdown(BootEnv)

SpecBoot == InitIn(BootEnv) /\ [][NextBoot]_vars

\* SpecRefresh: refreshes that fail half way.  The account fetch fails or
\* reports a smaller or larger balance and, once the engine runs, the
\* position fetch may raise after the account fetch answered.
RefreshEnv ==
    [params |-> {DefaultParams}, init_pos |-> {0},
     contracts |-> {CHOOSE c \in Contracts : c.tick_size = 5},
     leverages |-> {"ok"}, cancel_alls |-> {"ok"}, klines |-> {<<>>},
     accounts |-> {None, 500, 2000}, positions |-> {"found"},
     position_raises |-> TRUE,
     tickers |-> {NoTicker}, mids |-> {10000, 10030},
     cancels |-> {"CANCELED"},
     bid_places |-> {"ok"}, ask_places |-> {"ok"}, suffixes |-> {1000},
     max_quotes |-> MaxQuoteCount, max_time |-> MaxTime]

NextRefresh == BootstrapIn(RefreshEnv) \/ StepIn(RefreshEnv) \/ TickIn(RefreshEnv)

SpecRefresh == InitIn(RefreshEnv) /\ [][NextRefresh]_vars

\* SpecFill: fills between two refreshes.  A long position just below the
\* inventory budget, an order that fills, a clock that advances; the venue
\* accepts everything and every fetch succeeds.
FillEnv ==
    [params |-> {DefaultParams}, init_pos |-> {590},
     contracts |-> {CHOOSE c \in Contracts : c.tick_size = 5},
     leverages |-> {"ok"}, cancel_alls |-> {"ok"}, klines |-> {<<>>},
     accounts |-> {2000}, positions |-> {"found"},
     tickers |-> {NoTicker}, mids |-> {10000, 10030},
     cancels |-> {"CANCELED", "NOT_FOUND"},
     bid_places |-> {"ok"}, ask_places |-> {"ok"}, suffixes |-> {1000},
     max_quotes |-> MaxQuoteCount, max_time |-> MaxTime]

NextFill == BootstrapIn(FillEnv) \/ StepIn(FillEnv) \/ TickIn(FillEnv) \/ Fill

SpecFill == InitIn(FillEnv) /\ [][NextFill]_vars

\* SpecSkip: the cycles a step skips.  Steps before the contract is
\* loaded, a mid that is missing or zero, an account whose balance is or
\* becomes zero, a clock that advances; configurations with a spread as
\* wide as the mid itself (kATR and maxFullBps have no upper limit in
\* validate_config), under which the raw bid is zero or below one tick.
SkipEnv ==
    [params |-> {DefaultParams,
                 [DefaultParams EXCEPT !.kATR = 100000, !.maxFullBps = 20000],
                 [DefaultParams EXCEPT !.kATR = 99960, !.maxFullBps = 20000]},
     init_pos |-> {0},
     contracts |-> {CHOOSE c \in Contracts : c.tick_size = 5},
     leverages |-> {"ok"}, cancel_alls |-> {"error"}, klines |-> {<<>>},
     accounts |-> {0, 500, 2000}, positions |-> {"found"},
     tickers |-> {NoTicker}, mids |-> {None, 0, 10000, 10030},
     cancels |-> {"CANCELED"},
     bid_places |-> {"ok"}, ask_places |-> {"ok"}, suffixes |-> {1000},
     max_quotes |-> MaxQuoteCount, max_time |-> MaxTime]

NextSkip == BootstrapIn(SkipEnv) \/ StepIn(SkipEnv) \/ TickIn(SkipEnv)

SpecSkip == InitIn(SkipEnv) /\ [][NextSkip]_vars

\* SpecIds: the client identifiers.  Every random suffix for each
\* placement, placements the venue accepts or refuses, a mid that moves.
IdsEnv ==
    [params |-> {DefaultParams}, init_pos |-> {0},
     contracts |-> {CHOOSE c \in Contracts : c.tick_size = 5},
     leverages |-> {"ok"}, cancel_alls |-> {"ok"}, klines |-> {<<>>},
     accounts |-> {2000}, positions |-> {"found"},
     tickers |-> {NoTicker}, mids |-> {10000, 10030},
     cancels |-> {"CANCELED"},
     bid_places |-> PlaceOutcomes, ask_places |-> PlaceOutcomes, suffixes |-> {1000, 9999},
     max_quotes |-> MaxQuoteCount]

NextIds == BootstrapIn(IdsEnv) \/ StepIn(IdsEnv)

SpecIds == InitIn(IdsEnv) /\ [][NextIds]_vars

\* SpecBar: the rolling bar over more than one bar period.  A ticker whose
\* last price moves, a steady mid and account, a clock that advances past
\* the end of the first five-minute period.
BarEnv ==
    [params |-> {DefaultParams}, init_pos |-> {0},
     contracts |-> {CHOOSE c \in Contracts : c.tick_size = 5},
     leverages |-> {"ok"}, cancel_alls |-> {"ok"}, klines |-> {<<>>},
     accounts |-> {2000}, positions |-> {"found"},
     tickers |-> Tickers, mids |-> {10000},
     cancels |-> {"CANCELED"},
     bid_places |-> {"ok"}, ask_places |-> {"ok"}, suffixes |-> {1000},
     max_quotes |-> MaxQuoteCount, max_time |-> MaxBarTime]

NextBar == BootstrapIn(BarEnv) \/ StepIn(BarEnv) \/ TickIn(BarEnv)

SpecBar == InitIn(BarEnv) /\ [][NextBar]_vars

\* SpecCalc: the pure functions, each applied to every input of its
\* bounded domain; the engine is constructed and left alone.
NextCalc == Quantize \/ AtrUpdate \/ SkewOf \/ Multipliers

SpecCalc == InitIn(IdsEnv) /\ [][NextCalc]_vars

-----------------------------------------------------------------------------
(* Vocabulary of the properties *)

Sides == {"bid", "ask"}

OrderSide(side) == IF side = "bid" THEN "BUY" ELSE "SELL"

LiveOn(side) == {o \in venue_orders : o.side = OrderSide(side)}

\* Positions in the call log of the last operation
CancelCalls(cs, side) ==
    {i \in DOMAIN cs : cs[i].op = "cancel" /\ cs[i].side = side}

PlaceCalls(cs, side) ==
    {i \in DOMAIN cs : cs[i].op = "place" /\ cs[i].side = OrderSide(side)}

AllPlaceCalls(cs) == {i \in DOMAIN cs : cs[i].op = "place"}

\* The transition is a step of the engine.
IsStep == last'.op = "step"

\* The quote the step computed (it has a contract and a valid mid).
StepQuoteOf ==
    LET sv == StepVolatility(atr, params.atrLen, last_bar', last'.m)
    IN  Quote(params, contract, last'.m, prev_mid, equity_usd', pos_qty',
              sv.tr1, sv.atr_val)

\* The step is a quoting cycle that wants to act: shouldQuote is true.
WantsToQuote ==
    /\ IsStep
    /\ contract # NoContract
    /\ last'.m # None
    /\ StepQuoteOf.status = "ok"
    /\ StepQuoteOf.should_quote

\* The step executed its quote cycle.
CycleExecuted == IsStep /\ quote_count' = quote_count + 1

WindowOpen == now - last_order_reset < RateWindow

-----------------------------------------------------------------------------
(* C1 .. C10 *)

\* C1: after any sequence of steps the venue holds at most one live order
\* placed by the engine on each side.
C1_OneLiveOrderPerSide ==
    \A side \in Sides : Cardinality(LiveOn(side)) <= 1

\* C2: while a 60-second window is open, order_count_1min never exceeds the
\* cap of 30.
C2_CountWithinCap ==
    WindowOpen => order_count_1min <= max_orders_per_min

\* C3: a quoting cycle that wants to act while the counter is at or above
\* the cap inside an open window sends no cancel and no placement and leaves
\* the bid/ask records, prev_mid and quote_count unchanged.
C3_RateLimitedCycleDoesNothing ==
    [][(WantsToQuote /\ WindowOpen /\ order_count_1min >= max_orders_per_min)
       => (/\ calls' = <<>>
           /\ UNCHANGED <<bid, ask, prev_mid, quote_count, venue_orders>>)]_vars

C3_Witness ==
    /\ last.op = "step"
    /\ last.result = "rate_limited"
    /\ last.count0 >= max_orders_per_min
    /\ bid.order_id # None

\* C4: order_count_1min goes up by exactly one for every placement attempt of
\* a cycle, whatever the gateway answers, and by nothing else.
C4_CountsEveryAttempt ==
    [][CycleExecuted
       => order_count_1min' =
            check_rate_limit(order_count_1min, last_order_reset, now).count
            + Cardinality(AllPlaceCalls(calls'))]_vars

\* C5: once 60 seconds or more have elapsed since the window start, the next
\* rate-limit check resets the counter to 0 and the window start to the
\* current time, and the cycle is allowed (the counter then holds only this
\* cycle's placements).
C5_ElapsedWindowResets ==
    [][(WantsToQuote /\ ~ WindowOpen)
       => (/\ last_order_reset' = now
           /\ CycleExecuted
           /\ order_count_1min' =
                Cardinality({i \in AllPlaceCalls(calls') : calls'[i].res # "raise"}))]_vars

C5_Witness ==
    /\ last.op = "step"
    /\ last.result = "quoted"
    /\ last.count0 >= max_orders_per_min
    /\ last_order_reset = now
    /\ order_count_1min <= 2

\* C6: in every executed quoting cycle every cancel is issued before any
\* placement, each side that held an order is cancelled whether or not it is
\* placed again, and a side whose gating or eligibility check fails ends the
\* cycle Empty.
C6_CancelBothThenPlace ==
    [][CycleExecuted
       => (/\ \A i, j \in DOMAIN calls' :
                (calls'[i].op = "cancel" /\ calls'[j].op = "place") => i < j
           /\ bid.order_id # None
                => \E i \in CancelCalls(calls', "bid") : calls'[i].oid = bid.order_id
           /\ ask.order_id # None
                => \E i \in CancelCalls(calls', "ask") : calls'[i].oid = ask.order_id
           /\ ~ (StepQuoteOf.can_buy /\ StepQuoteOf.bid_ok)
                => (bid' = EmptySide /\ PlaceCalls(calls', "bid") = {})
           /\ ~ (StepQuoteOf.can_sell /\ StepQuoteOf.ask_ok)
                => (ask' = EmptySide /\ PlaceCalls(calls', "ask") = {}))]_vars

\* A cycle that cancelled both resting orders and placed neither side again.
C6_Witness ==
    /\ last.result = "quoted"
    /\ Len(calls) = 2
    /\ calls[1].op = "cancel" /\ calls[1].side = "bid"
    /\ calls[2].op = "cancel" /\ calls[2].side = "ask"
    /\ bid = EmptySide /\ ask = EmptySide

\* C7: after a placement the side's record is Resting with the order id the
\* gateway returned if and only if the placement returned one; otherwise the
\* side is Empty.
C7_RecordIffOrderId ==
    \A side \in Sides : \A i \in PlaceCalls(calls, side) :
        LET st == IF side = "bid" THEN bid ELSE ask
        IN  IF calls[i].oid # None
            THEN /\ st.order_id = calls[i].oid
                 /\ st.price = calls[i].price
                 /\ st.qty = calls[i].qty
            ELSE st = EmptySide

\* A cycle whose bid was accepted and whose ask came back without an id.
C7_Witness ==
    /\ \E i \in PlaceCalls(calls, "bid") : calls[i].res = "ok" /\ bid.order_id = calls[i].oid
    /\ \E i \in PlaceCalls(calls, "ask") : calls[i].res = "noid" /\ ask = EmptySide

\* C8: a cancel of a side that holds an order id clears the record whatever
\* the gateway answers, and the cycle goes on: the side ends Empty unless this
\* cycle's own placement filled it again, every eligible side is still placed
\* and prev_mid is recorded.
C8_CancelAlwaysClears ==
    [][CycleExecuted
       => \A side \in Sides :
            LET old == IF side = "bid" THEN bid ELSE ask
                new == IF side = "bid" THEN bid' ELSE ask'
                eligible == IF side = "bid"
                            THEN StepQuoteOf.can_buy /\ StepQuoteOf.bid_ok
                            ELSE StepQuoteOf.can_sell /\ StepQuoteOf.ask_ok
            IN  old.order_id # None
                => (/\ \/ new = EmptySide
                       \/ \E i \in PlaceCalls(calls', side) :
                            calls'[i].oid # None /\ new.order_id = calls'[i].oid
                    /\ eligible => PlaceCalls(calls', side) # {}
                    /\ prev_mid' = last'.m)]_vars

\* A cancel answered "not found" and one answered with an error, both sides
\* Empty afterwards.
C8_Witness ==
    /\ last.result = "quoted"
    /\ \E i \in CancelCalls(calls, "bid") : calls[i].res = "NOT_FOUND"
    /\ \E i \in CancelCalls(calls, "ask") : calls[i].res = "ERROR"
    /\ bid = EmptySide /\ ask = EmptySide
    /\ prev_mid = last.m

\* C9: every BUY the engine places in a cycle with mid m has a price below m
\* and every SELL a price above m.
C9_QuotesStraddleMid ==
    \A i \in AllPlaceCalls(calls) :
        IF calls[i].side = "BUY" THEN calls[i].price < last.m
                                 ELSE calls[i].price > last.m

\* Both sides placed with the minimum-spread margin binding on the bid.
C9_Witness ==
    /\ \E i \in PlaceCalls(calls, "bid") :
          calls[i].price = q_price_floor(contract, last.m - MinOffset(last.m))
    /\ PlaceCalls(calls, "ask") # {}

\* C10: every order sent to the gateway has a price that is a multiple of
\* tickSize and a quantity that is a multiple of stepSize; so has the price
\* the post-quantization correction would send.
C10_OrdersOnGrid ==
    /\ \A i \in AllPlaceCalls(calls) :
          /\ calls[i].price % contract.tick_size = 0
          /\ calls[i].qty % contract.step_size = 0
    /\ (last.op = "step" /\ last.m # None)
          => /\ SanityBid(contract, last.m, last.m) % contract.tick_size = 0
             /\ SanityAsk(contract, last.m, last.m) % contract.tick_size = 0

\* An order whose raw price and quantity were not on the grid.
C10_Witness ==
    /\ contract.tick_size = 10
    /\ last.m % 10 # 0
    /\ \E i \in PlaceCalls(calls, "bid") : calls[i].qty > contract.step_size
    /\ PlaceCalls(calls, "ask") # {}

-----------------------------------------------------------------------------
(* C11 .. C20 *)

\* The side passed its risk gate and its minimum-size checks in this step.
Eligible(side) ==
    IF side = "bid" THEN StepQuoteOf.can_buy /\ StepQuoteOf.bid_ok
                    ELSE StepQuoteOf.can_sell /\ StepQuoteOf.ask_ok

\* The side passed its minimum-size checks in this step.
SizeOk(side) == IF side = "bid" THEN StepQuoteOf.bid_ok ELSE StepQuoteOf.ask_ok

\* C11: no order is placed whose quantity is below minQuantity or whose
\* price times quantity is below minNotional; in an executed cycle a side
\* that fails its size checks is skipped and a side that passes its own
\* gate and checks is placed whatever happened to the other side.
C11_MinimumSizeRespected ==
    [][/\ \A i \in AllPlaceCalls(calls') :
            /\ calls'[i].qty >= contract'.min_qty
            /\ calls'[i].price * calls'[i].qty >= contract'.min_notional
       /\ CycleExecuted
            => \A side \in Sides :
                 /\ ~ SizeOk(side) => PlaceCalls(calls', side) = {}
                 /\ Eligible(side) => Cardinality(PlaceCalls(calls', side)) = 1]_vars

\* A cycle that skipped the bid for its size and placed the ask.
C11_Witness ==
    /\ last.result = "quoted"
    /\ PlaceCalls(calls, "bid") = {}
    /\ pos_qty > 0
    /\ CanBuy(pos_qty * last.m, MaxNotional(params, equity_usd))
    /\ \E i \in PlaceCalls(calls, "ask") :
          calls[i].price * calls[i].qty >= contract.min_notional

\* C12: a BUY is placed only in a cycle where pos_qty * mid is below
\* equity * invBudgetPct / 100; a SELL only where pos_qty * mid is above
\* minus that budget or, with longBiasOnly, only where pos_qty > 0.
C12_RiskGating ==
    \A i \in AllPlaceCalls(calls) :
        LET position_notional == pos_qty * last.m
            budget100 == equity_usd * params.invBudgetPct * NotionalScale
        IN  IF calls[i].side = "BUY"
            THEN position_notional * 100 < budget100
            ELSE IF params.longBiasOnly
                 THEN pos_qty > 0
                 ELSE position_notional * 100 > 0 - budget100

\* A cycle over budget on the long side: the ask is placed, the bid is not.
C12_Witness ==
    /\ last.result = "quoted"
    /\ pos_qty * last.m * 100 >= equity_usd * params.invBudgetPct * NotionalScale
    /\ PlaceCalls(calls, "bid") = {}
    /\ PlaceCalls(calls, "ask") # {}

\* The step is one in a running engine that obtained a mid.
StepWithMid == IsStep /\ contract # NoContract /\ last'.m # None

\* The volatility figures the step computed.
StepVol1 == StepVolatility(atr, params.atrLen, last_bar', last'.m)

\* C13: in a step where slipGuardATR > 0 and the latest true range exceeds
\* slipGuardATR times the ATR, no cancel and no placement is sent and
\* prev_mid, the records and the order counter are unchanged, however far
\* the mid has moved and also when prev_mid is absent.
C13_BigMoveBlocksQuoting ==
    [][(/\ StepWithMid
        /\ params.slipGuardATR > 0
        /\ StepVol1.tr1 > params.slipGuardATR * StepVol1.atr_val)
       => (/\ calls' = <<>>
           /\ UNCHANGED <<prev_mid, bid, ask, venue_orders, order_count_1min,
                          quote_count>>)]_vars

\* A step that did not quote although prev_mid was absent: only a big move
\* can have held it back.
C13_Witness ==
    /\ last.op = "step"
    /\ last.result = "no_requote"
    /\ prev_mid = None
    /\ calls = <<>>

\* prev_mid is absent or the step's mid is further from it than
\* mid * requoteBps / 10000.
StepMidMoved ==
    \/ prev_mid = None
    \/ Abs(last'.m - prev_mid) * 10000 > last'.m * params.requoteBps

\* C14: absent a big move, a step that reaches the decision (it is not
\* aborted for its budget or prices) goes for a requote exactly when prev_mid
\* is absent or the mid moved by strictly more than m * requoteBps / 10000:
\* the cycle then runs unless the rate limit holds it back.  A step whose
\* mid moved by the threshold or less leaves the resting orders, their
\* records and the order counter untouched.
C14_RequoteExactlyOnMove ==
    [][(/\ StepWithMid
        /\ ~ (/\ params.slipGuardATR > 0
              /\ StepVol1.tr1 > params.slipGuardATR * StepVol1.atr_val)
        /\ StepQuoteOf.status = "ok")
       => (/\ (CycleExecuted \/ last'.result = "rate_limited") <=> StepMidMoved
           /\ ~ StepMidMoved
                => (/\ calls' = <<>>
                    /\ UNCHANGED <<bid, ask, venue_orders, order_count_1min,
                                   prev_mid>>))]_vars

\* A step whose mid is exactly the threshold away from prev_mid, with no
\* ticker ever seen (true range 0): the resting orders stay.
C14_Witness ==
    /\ last.op = "step"
    /\ last.result = "no_requote"
    /\ last_bar.c = 0
    /\ prev_mid # None
    /\ last.m # prev_mid
    /\ Abs(last.m - prev_mid) * 10000 = last.m * params.requoteBps
    /\ bid.order_id # None /\ IsLive(venue_orders, bid.order_id)
    /\ ask.order_id # None /\ IsLive(venue_orders, ask.order_id)

\* C15: prev_mid changes only in a step whose quote cycle executed
\* (shouldQuote true and the rate limit passed), where it becomes that
\* step's mid; every other step (aborted, not requoting, rate limited) and
\* every other operation leaves it unchanged.
C15_PrevMidOnlyOnExecutedCycle ==
    [][/\ (IsStep /\ last'.result = "quoted")
            => (/\ prev_mid' = last'.m
                /\ WantsToQuote
                /\ check_rate_limit(order_count_1min, last_order_reset, now).ok)
       /\ ~ (IsStep /\ last'.result = "quoted") => prev_mid' = prev_mid]_vars

\* A rate-limited step whose mid differs from the recorded prev_mid.
C15_Witness ==
    /\ last.op = "step"
    /\ last.result = "rate_limited"
    /\ prev_mid # None
    /\ last.m # prev_mid

\* C16: any two non-forced account fetches, the bootstrap snapshot and
\* failed fetches included, are at least 60 seconds apart.
C16_FetchesSixtySecondsApart ==
    [][((last_fetch' = now /\ (IsStep \/ last'.op = "bootstrap")) /\ last_fetch # None)
       => now - last_fetch >= EquityRefreshPeriod]_vars

\* The main loop calls step_with_retry in this transition.
StepStarts == pc = "due" /\ pc' = "attempt"

\* C17: two consecutive steps started by the main loop begin at least the
\* loop interval apart, however the earlier one ended.
C17_StepsLoopIntervalApart ==
    [][(StepStarts /\ step_start # None)
       => clock - step_start >= loop_interval]_vars

\* The attempt's call of mm.step() raised ConnectionError.
AttemptLostConnection ==
    AttemptEnds /\ last'.op = "step_raised" /\ last'.result = "connection_error"

\* C18: step_with_retry makes at most 3 attempts; it makes another one only
\* after a connection error, after waiting 1 s, then 2 s; it returns True at
\* the first attempt that completes and returns False, without a wait and
\* without raising, when the third attempt has failed too.
C18_BoundedRetryWithBackoff ==
    [][/\ pc = "attempt" => attempt \in 0 .. 2
       /\ (pc # "backoff" /\ pc' = "backoff") => AttemptLostConnection /\ attempt < 2
       /\ (pc = "backoff" /\ pc' # "backoff") =>
            /\ pc' = "attempt"
            /\ attempt' = attempt + 1
            /\ clock' - clock = (IF attempt = 0 THEN 1 ELSE 2) * TimeScale
       /\ (AttemptEnds /\ last'.op = "step") => pc' = "sleep" /\ ret' = "True"
       /\ (AttemptLostConnection /\ attempt = 2) =>
            pc' = "sleep" /\ ret' = "exhausted" /\ clock' = clock
       /\ (AttemptEnds /\ ~ (AttemptEnds /\ last'.op = "step") /\ ~ AttemptLostConnection) =>
            pc' = "sleep" /\ ret' = "error" /\ clock' = clock]_vars

\* All three attempts lost the connection: the call returned False three
\* seconds after it began.
C18_Witness ==
    /\ ret = "exhausted"
    /\ attempt = 2
    /\ clock - step_start = 3 * TimeScale

\* C19: an application-level error ends the step at once, with no further
\* attempt, and the step after it starts no sooner than a loop interval
\* after the failed one started.
C19_ErrorWaitsForNextTick ==
    [][/\ (AttemptEnds /\ last'.op = "step_raised" /\ last'.result = "error")
            => pc' = "sleep" /\ ret' = "error" /\ clock' = clock
       /\ (StepStarts /\ ret = "error")
            => clock - step_start >= loop_interval]_vars

\* C20: once the flag is set the loop exits and the shutdown sequence runs,
\* after at most the step in flight and one sleep; no step starts once the
\* loop has seen the flag; the shutdown sequence runs exactly once.
C20_ShutdownOnceAndSoon ==
    /\ shutdown_requested ~> (pc = "done")
    /\ [](sleeps_after_flag <= 1)
    /\ []((shutdown_runs = 1) <=> (pc = "done"))
    /\ [](shutdown_runs <= 1)
    /\ [][/\ (StepStarts /\ shutdown_requested) => sleeps_after_flag = 0
          /\ (pc = "loop" /\ shutdown_requested /\ pc' # pc) => pc' = "shutdown"
          /\ pc \in {"shutdown", "done"}
               => (pc' \in {"shutdown", "done"} /\ ~ StepStarts /\ pc' # "attempt")]_vars

\* The flag was set while a step was in flight; the step ended, the loop
\* slept once, left, and the shutdown sequence has run.
C20_Witness ==
    /\ pc = "done"
    /\ shutdown_runs = 1
    /\ sleeps_after_flag = 1
    /\ ret \in {"True", "error", "exhausted"}


-----------------------------------------------------------------------------
(* C21 .. C30 *)

\* Where main() stands while it is inside the loop.
InLoop == phase = "running" /\ pc \in {"loop", "due", "attempt", "backoff", "sleep"}

\* The shutdown sequence runs in this transition.
ShutdownRuns == pc = "shutdown" /\ pc' = "done"

\* The sides whose record holds an order, bid before ask.
HeldSides ==
    (IF bid.order_id # None THEN <<"bid">> ELSE <<>>)
    \o (IF ask.order_id # None THEN <<"ask">> ELSE <<>>)

\* C21: whenever the loop is left after a successful bootstrap, by the flag
\* or by an exception, the shutdown sequence runs: the bid's cancel, the
\* ask's cancel, then the forced account fetch, in that order, the fetch
\* also after a cancel that failed.
C21_ShutdownSequenceRuns ==
    /\ [][(InLoop /\ ~ InLoop') => pc' = "shutdown"]_vars
    /\ (pc = "shutdown") ~> (pc = "done")
    /\ [][ShutdownRuns =>
            /\ Len(calls') = Len(HeldSides) + 1
            /\ \A i \in 1 .. Len(HeldSides) :
                 calls'[i].op = "cancel" /\ calls'[i].side = HeldSides[i]
            /\ calls'[Len(calls')].op = "fetch"
            /\ bid' = EmptySide /\ ask' = EmptySide]_vars

\* The loop was left by an exception (no shutdown was requested); the
\* cancel of the bid failed, and the ask's cancel and the fetch followed.
C21_Witness ==
    /\ pc = "done"
    /\ ~ shutdown_requested
    /\ Len(calls) = 3
    /\ calls[1].res = "ERROR"
    /\ calls[3].op = "fetch"

\* The step that has just ended met an error: its call raised, or it
\* returned after a missing mid, a failed fetch, or a cancel or a placement
\* that the venue refused or that raised.
StepMetError ==
    \/ ret \in {"error", "exhausted"}
    \/ /\ ret = "True"
       /\ last.op = "step"
       /\ \/ last.result = "no_mid"
          \/ \E i \in 1 .. Len(calls) : calls[i].res \in {"REJECTED", "ERROR", "raise", "noid"}

\* The clock at which the loop will find the next step due lies within the
\* time the loop is followed for.
NextStepInHorizon ==
    LET due == IF ret = "True" THEN last_step + loop_interval ELSE clock + poll_sleep
    IN  Max2(due, clock + poll_sleep) <= StartTime * TimeScale + MaxLoopTicks

\* C22: no error met inside a step ends the loop: the loop is left only on
\* seeing the shutdown flag, and after a step that met an error another
\* step is started unless shutdown is requested first.
C22_StepErrorsKeepLoopAlive ==
    /\ [][(InLoop /\ ~ InLoop') => (pc = "loop" /\ shutdown_requested)]_vars
    /\ (pc = "sleep" /\ StepMetError /\ NextStepInHorizon)
         ~> ((pc = "attempt" /\ attempt = 0) \/ shutdown_requested)

\* A step has started after a step whose call raised.
C22_Witness ==
    /\ pc = "attempt"
    /\ attempt = 0
    /\ step_start > StartTime * TimeScale
    /\ last_step = 0
    /\ ~ shutdown_requested

\* No step has been run and the venue holds no order of the engine.
NothingRun == step_start = None /\ venue_orders = {} /\ quote_count = 0 /\ pc = "loop"

\* C23 as stated: the startup is aborted, and then nothing is run, exactly
\* when the contract lookup returned nothing, the leverage call raised or the
\* snapshot raised.
C23_AbortExactlyOnThree ==
    /\ (phase = "aborted") => NothingRun
    /\ (phase \in {"running", "aborted"}) =>
         ((phase = "aborted") <=> \/ boot.lookup = "none"
                      \/ boot.leverage = "raise"
                      \/ boot.snapshot = "raise")

\* C23 amended: the startup is aborted, and then nothing is run, exactly
\* when the contract lookup returned nothing or raised, the leverage call
\* raised or the snapshot raised; an unsupported leverage, a failed
\* cancel-all and a failed warm-up do not abort it.
C23_AbortExactlyOnHardFailure ==
    /\ (phase = "aborted") => NothingRun
    /\ (phase \in {"running", "aborted"}) =>
         ((phase = "aborted") <=> \/ boot.lookup \in {"none", "raise"}
                      \/ boot.leverage = "raise"
                      \/ boot.snapshot = "raise")

\* The startup went on after an unsupported leverage, a failed cancel-all
\* and a failed warm-up, and the first step has placed its orders.
C23_Witness ==
    /\ phase = "running"
    /\ boot.leverage = "not_supported"
    /\ boot.cancel_all = "error"
    /\ boot.warmup = "failed"
    /\ quote_count = 1
    /\ venue_orders # {}

\* The step finds no contract, no usable mid, or a budget that is not
\* positive for the equity it has just read.
SkipsCycle ==
    /\ IsStep
    /\ \/ contract = NoContract
       \/ last'.m = None
       \/ equity_usd' * params.invBudgetPct <= 0

\* C24: a step without contract, without a positive mid, or with a max
\* notional that is not positive sends no cancel and no placement, leaves
\* the bid and ask records, prev_mid, order_count_1min and quote_count as
\* they were, and the engine keeps running.
C24_SkippedCycleTouchesNothing ==
    [][SkipsCycle
       => (/\ calls' = <<>>
           /\ UNCHANGED <<bid, ask, prev_mid, order_count_1min, quote_count,
                          venue_orders, phase>>
           /\ phase # "aborted")]_vars

\* The balance fell to zero while both orders were resting: the step
\* skipped the cycle and left them.
C24_Witness ==
    /\ last.op = "step"
    /\ last.result = "bad_max_notional"
    /\ equity_usd = 0
    /\ bid.order_id # None
    /\ ask.order_id # None

\* C25: two placements of one run never carry the same client identifier:
\* the identifiers the bid and ask records hold differ.
C25_DistinctClientIds ==
    (bid.client_id # None /\ ask.client_id # None) => bid.client_id # ask.client_id

\* C26: for every price or quantity v >= 0 and increment s > 0 the floor
\* quantizers (q_price_floor, q_qty) return the largest multiple of s that
\* is <= v, the ceiling quantizer returns the smallest multiple of s that is
\* >= v, and an exact multiple comes back unchanged.  Tick 0.01 takes
\* 100.004 to 100.00 (floor) and 100.01 (ceiling) and leaves 100.00 alone;
\* step 0.001 takes 1.2349 to 1.234.
C26_QuantizersRoundToIncrement ==
    calc_in.fn = "quantize" =>
        LET v == calc_in.v
            s == calc_in.s
            f == calc_out.floor
            c == calc_out.ceil
            q == calc_out.qty
        IN  /\ f % s = 0 /\ f <= v /\ v < f + s
            /\ q % s = 0 /\ q <= v /\ v < q + s
            /\ c % s = 0 /\ c >= v /\ c - s < v
            /\ (v % s = 0 => f = v /\ c = v /\ q = v)
            /\ (v = 100004 /\ s = 10 => f = 100000 /\ c = 100010)
            /\ (v = 100000 /\ s = 10 => c = 100000)
            /\ (v = 12349 /\ s = 10 => q = 12340)

\* The ceiling quantizer was handed both an exact multiple and a value
\* strictly between two multiples; this is the second.
C26_Witness ==
    /\ calc_in.fn = "quantize"
    /\ calc_in.v = 100004 /\ calc_in.s = 10
    /\ calc_out.floor = 100000 /\ calc_out.ceil = 100010

\* C27: ATR.update_bar returns (smoothed, trueRange).  The true range is
\* high - low while no previous close is recorded, and otherwise the largest
\* of high - low, |high - prevClose| and |low - prevClose|.  The first update
\* sets smoothed to the true range; every later update sets it to
\* (1 - 1/length) * smoothed + (1/length) * trueRange, here to the fixed-point
\* unit.  Length 14: the bar 105/95 gives (10, 10), and the next bar, 108/98
\* after a close of 100, gives true range 10 and smoothed 10.
C27_AtrUpdateBar ==
    calc_in.fn = "update_bar" =>
        LET h == calc_in.h
            l == calc_in.l
            pcl == calc_in.prev_close
            len == calc_in.len
            tr == calc_out.tr
            exact == (len - 1) * calc_in.rma + tr
        IN  /\ pcl = None => tr = h - l
            /\ pcl # None =>
                   /\ tr \in {h - l, Abs(h - pcl), Abs(l - pcl)}
                   /\ tr >= h - l /\ tr >= Abs(h - pcl) /\ tr >= Abs(l - pcl)
            /\ calc_in.rma = None => calc_out.rma = tr
            /\ calc_in.rma # None =>
                   /\ len * calc_out.rma <= exact
                   /\ exact < len * (calc_out.rma + 1)
            /\ calc_out.atr.rma = calc_out.rma
            /\ (len = 14 /\ calc_in.n = 1 /\ h = 10500 /\ l = 9500)
                   => calc_out.rma = 1000 /\ tr = 1000
            /\ (len = 14 /\ calc_in.rma = 1000 /\ pcl = 10000 /\ h = 10800 /\ l = 9800)
                   => calc_out.rma = 1000 /\ tr = 1000

\* A later update on an estimator that holds a previous close, with a bar
\* whose gap from that close exceeds its own range, moved the smoothed value.
C27_Witness ==
    /\ calc_in.fn = "update_bar"
    /\ calc_in.rma # None /\ calc_in.prev_close # None
    /\ calc_out.tr > calc_in.h - calc_in.l
    /\ calc_out.rma # calc_in.rma /\ calc_out.rma # calc_out.tr

\* C28: for every equity > 0, invBudgetPct in [10, 100], position and mid
\* price the skew is position * mid / (equity * invBudgetPct / 100) clamped
\* to [-1, 1] (here in hundredths, cut toward zero), so it lies in [-1, 1].
\* With balance 10000, price 50000 and invBudgetPct 50 the positions 0,
\* 0.05, 0.10 and -0.05 give 0, 0.5, 1.0 and -0.5.
C28_SkewClampedRatio ==
    calc_in.fn = "skew" =>
        LET num == calc_in.pos_qty * calc_in.mid          \* position * mid, in 1/NotionalScale USD
            den == calc_in.equity * calc_in.invBudgetPct  \* a hundredth of the budget, same unit
            skew == calc_out.skew
            sample == calc_in.equity = 10000 /\ calc_in.mid = 5000000
                      /\ calc_in.invBudgetPct = 50
        IN  /\ skew >= 0 - 100 /\ skew <= 100
            /\ DivT(num, den) >= 100 => skew = 100
            /\ DivT(num, den) <= 0 - 100 => skew = 0 - 100
            /\ Abs(DivT(num, den)) < 100 =>
                   /\ Abs(skew) * den <= Abs(num)
                   /\ Abs(num) < (Abs(skew) + 1) * den
                   /\ skew # 0 => Sign(skew) = Sign(num)
            /\ (sample /\ calc_in.pos_qty = 0) => skew = 0
            /\ (sample /\ calc_in.pos_qty = 5) => skew = 50
            /\ (sample /\ calc_in.pos_qty = 10) => skew = 100
            /\ (sample /\ calc_in.pos_qty = 0 - 5) => skew = 0 - 50

\* A position worth more than the whole budget was clamped to 1.
C28_Witness ==
    /\ calc_in.fn = "skew"
    /\ DivT(calc_in.pos_qty * calc_in.mid, calc_in.equity * calc_in.invBudgetPct) > 100
    /\ calc_out.skew = 100

\* C29: the ask multiplier is 1 + sizeAmp * max(0, skew) and the bid
\* multiplier 1 + sizeAmp * max(0, -skew) (here in hundredths, cut toward
\* zero): only the side that reduces the inventory is ever sized above 1,
\* the ask when long and the bid when short, and both are 1 at skew 0.  With
\* sizeAmp 1.5, skew 0.5 gives bid 1.0 and ask 1.75, and skew -0.5 gives bid
\* 1.75 and ask 1.0.
C29_ReducingSideSizedUp ==
    calc_in.fn = "multipliers" =>
        LET amp == calc_in.sizeAmp
            skew == calc_in.skew
            long == IF skew > 0 THEN skew ELSE 0
            short == IF skew < 0 THEN 0 - skew ELSE 0
            askm == calc_out.ask_mult
            bidm == calc_out.bid_mult
        IN  /\ (askm - 100) * 100 <= amp * long /\ amp * long < (askm - 99) * 100
            /\ (bidm - 100) * 100 <= amp * short /\ amp * short < (bidm - 99) * 100
            /\ askm > 100 => skew > 0 /\ bidm = 100
            /\ bidm > 100 => skew < 0 /\ askm = 100
            /\ amp * long >= 100 => askm > 100
            /\ amp * short >= 100 => bidm > 100
            /\ skew = 0 => askm = 100 /\ bidm = 100
            /\ (amp = 150 /\ skew = 50) => bidm = 100 /\ askm = 175
            /\ (amp = 150 /\ skew = 0 - 50) => bidm = 175 /\ askm = 100

\* A long inventory sized the askm above 1 and left the bid at 1.
C29_Witness ==
    /\ calc_in.fn = "multipliers"
    /\ calc_in.skew > 0
    /\ calc_out.ask_mult > 100 /\ calc_out.bid_mult = 100

\* A call of step_with_retry is in progress: an attempt is running, or the
\* wait before the next attempt.
StepInFlight == phase = "running" /\ pc \in {"attempt", "backoff"}

\* C30: at most one step is in progress at any time and only the loop
\* mutates the engine state: a shutdown signal changes nothing but the
\* flag; a step is started only when the previous one has returned; a step
\* in flight is left only by returning to the loop, and it does return even
\* when the flag is already set; the shutdown sequence never starts while a
\* step is in flight.
C30_OneStepNoInterference ==
    /\ [][shutdown_requested' # shutdown_requested
            => UNCHANGED <<engine_vars, venue_orders, venue_pos, fills,
                           last_fetch, boot, now, clock, pc, loop_now,
                           last_step, attempt, ret, step_start,
                           shutdown_runs, sleeps_after_flag>>]_vars
    /\ [][StepStarts => ret # "running"]_vars
    /\ [][StepInFlight => (StepInFlight' \/ (pc' = "sleep" /\ ret' # "running"))]_vars
    /\ [][ShutdownRuns => (~ StepInFlight /\ ret # "running")]_vars
    /\ [](StepInFlight => ret = "running")
    /\ (StepInFlight /\ shutdown_requested) ~> (pc = "sleep" /\ ret # "running")

\* The signal has arrived while a step was in flight.
C30_Witness ==
    /\ StepInFlight
    /\ shutdown_requested
    /\ last.op = "signal"

-----------------------------------------------------------------------------
(* C31 .. C40 *)

\* C31: ATR.update_bar changes previousClose only when it is called with
\* closed = true, and then sets it to that bar's close; a call with closed =
\* false updates the smoothed value and leaves previousClose as it was, so
\* the next call on the same estimator still measures its true range against
\* the last closed bar.
C31_PrevCloseOnlyWhenClosed ==
    /\ [](calc_in.fn = "update_bar" =>
            /\ calc_in.closed => calc_out.atr.prev_close = calc_in.c
            /\ ~ calc_in.closed =>
                  /\ calc_out.atr.prev_close = calc_in.prev_close
                  /\ calc_out.atr.rma = calc_out.rma
                  /\ calc_out.rma # None)
    /\ [][(/\ calc_in.fn = "update_bar" /\ calc_in'.fn = "update_bar"
           /\ calc_in'.n = calc_in.n + 1)
          => /\ calc_in'.prev_close = IF calc_in.closed THEN calc_in.c
                                       ELSE calc_in.prev_close
             /\ calc_in'.prev_close # None =>
                   calc_out'.tr >= Abs(calc_in'.h - calc_in'.prev_close)]_vars

\* An open bar whose close differs from the recorded one moved the smoothed
\* value and left the recorded close alone.
C31_Witness ==
    /\ calc_in.fn = "update_bar"
    /\ ~ calc_in.closed
    /\ calc_in.prev_close # None
    /\ calc_in.c # calc_in.prev_close
    /\ calc_out.atr.prev_close = calc_in.prev_close
    /\ calc_out.rma # calc_in.rma

\* C32: the rolling bar is created on the first tick, each later tick of the
\* same bar period extends its high and low and replaces its close, and the
\* first tick of a new bar period starts a new bar, so that the bar fed to
\* the volatility estimator covers only the current period.
C32_BarCoversCurrentPeriod ==
    [][(IsStep /\ last_bar' # last_bar) =>
          LET price == last_bar'.c
              new_period == /\ last.op = "tick"
                            /\ now \div BarPeriod # (now - TickStep) \div BarPeriod
          IN  IF last_bar.c = 0 \/ new_period
              THEN last_bar'.h = price /\ last_bar'.l = price
              ELSE /\ last_bar'.h = Max2(last_bar.h, price)
                   /\ last_bar'.l = Min2(last_bar.l, price)]_vars

\* C33: a step whose raw bid or ask price is not positive, or whose
\* quantized bid or ask price is not positive, sends no cancel and no
\* placement and leaves the bid and ask records, prev_mid and the order
\* counter as they were.
C33_BadPricesSendNothing ==
    [][(/\ IsStep
        /\ contract # NoContract
        /\ last'.m # None
        /\ MaxNotional(params, equity_usd') > 0
        /\ LET m == last'.m
               sv == StepVolatility(atr, params.atrLen, last_bar', m)
               skew == Skew(pos_qty' * m, MaxNotional(params, equity_usd'))
               half_w == HalfWidth(params, m, sv.atr_val)
               shift == BullShift(params, m) - InvOffset(params, skew, half_w)
               bid_px == MarginBid(m, m - half_w + shift)
               ask_px == MarginAsk(m, m + half_w + shift)
           IN  \/ bid_px <= 0
               \/ ask_px <= 0
               \/ q_price_floor(contract, bid_px) <= 0
               \/ q_price_ceil(contract, ask_px) <= 0)
       => (/\ calls' = <<>>
           /\ last'.result \in {"bad_px", "bad_px_q"}
           /\ UNCHANGED <<bid, ask, prev_mid, order_count_1min, venue_orders>>)]_vars

\* Both orders were resting when the mid fell to where the bid, one spread
\* below it, came out under one tick: the step left them alone.
C33_Witness ==
    /\ last.op = "step"
    /\ last.result = "bad_px_q"
    /\ bid.order_id # None
    /\ ask.order_id # None
    /\ prev_mid # last.m
    /\ calls = <<>>

\* C34: within an executed quoting cycle the two placements are independent:
\* each side that passes its gate and its size checks is attempted exactly
\* once, whether the other side's placement succeeded, failed or was
\* skipped, and a side's record is filled only by that side's own accepted
\* placement, never by the other side's.
C34_PlacementsIndependent ==
    [][CycleExecuted
       => \A side \in Sides :
            LET new == IF side = "bid" THEN bid' ELSE ask'
            IN  /\ Eligible(side) => Cardinality(PlaceCalls(calls', side)) = 1
                /\ ~ Eligible(side) => PlaceCalls(calls', side) = {}
                /\ new # EmptySide
                     => \E i \in PlaceCalls(calls', side) :
                           /\ calls'[i].res = "ok"
                           /\ new.order_id = calls'[i].oid
                /\ (\E i \in PlaceCalls(calls', side) : calls'[i].res # "ok")
                     => new = EmptySide]_vars

\* The bid placement raised, the ask of the same cycle was still placed and
\* stored, and the bid side stayed empty.
C34_Witness ==
    /\ last.result = "quoted"
    /\ \E i \in PlaceCalls(calls, "bid") : calls[i].res = "raise"
    /\ \E i \in PlaceCalls(calls, "ask") : calls[i].res = "ok" /\ ask.order_id = calls[i].oid
    /\ bid = EmptySide

\* C35: in every reachable state each of the bid and ask records is either
\* fully empty (client id, order id, price and quantity all absent) or
\* fully populated (all four present): no record without an order id is
\* kept in the engine state.
C35_RecordEmptyOrComplete ==
    \A st \in {bid, ask} :
        \/ st = EmptySide
        \/ /\ st.client_id # None
           /\ st.order_id # None
           /\ st.price # None
           /\ st.qty # None

\* A cycle that cancelled the resting bid and got no order id for the new
\* one, while the new ask was accepted: the bid record is empty, the ask
\* record complete.
C35_Witness ==
    /\ last.result = "quoted"
    /\ CancelCalls(calls, "bid") # {}
    /\ \E i \in PlaceCalls(calls, "bid") : calls[i].res = "noid"
    /\ bid = EmptySide
    /\ ask.client_id # None /\ ask.order_id # None /\ ask.price # None /\ ask.qty # None

\* C36: the corrections after quantization are never taken: in every step
\* that reaches them the bid is at most m - 0.0015 m and the ask at least
\* m + 0.0015 m after the margin step, so the bid rounded down to the tick
\* is below the mid and the ask rounded up to the tick is above it, and
\* the prices used are the quantized ones, not corrected ones.
C36_SanityCorrectionsNeverTaken ==
    [][StepWithMid
       => \A q \in {StepQuoteOf}, m \in {last'.m} :
            q.status = "ok"
            =>
              /\ MinOffset(m) > 0
              /\ q.bid_px <= m - MinOffset(m)
              /\ q.ask_px >= m + MinOffset(m)
              /\ q_price_floor(contract, q.bid_px) < m
              /\ q_price_ceil(contract, q.ask_px) > m
              /\ ~ q.bid_fixed
              /\ ~ q.ask_fixed
              /\ q.bid_px_q = q_price_floor(contract, q.bid_px)
              /\ q.ask_px_q = q_price_ceil(contract, q.ask_px)]_vars

\* A mid on the tick grid with both raw prices pulled back to the margin:
\* the orders went out at the margin prices rounded away from the mid.
C36_Witness ==
    /\ last.result = "quoted"
    /\ last.m % contract.tick_size = 0
    /\ (last.m - MinOffset(last.m)) % contract.tick_size # 0
    /\ \E i \in PlaceCalls(calls, "bid") :
          calls[i].price = q_price_floor(contract, last.m - MinOffset(last.m))
    /\ \E i \in PlaceCalls(calls, "ask") :
          calls[i].price = q_price_ceil(contract, last.m + MinOffset(last.m))

\* C37: after the shutdown sequence has completed, both side records are
\* empty and no order the engine placed during the run is still live on
\* the venue.
C37_NothingLiveAfterShutdown ==
    pc = "done"
    => /\ bid = EmptySide
       /\ ask = EmptySide
       /\ venue_orders = {}

\* C39: if the account fetch or the position fetch fails during an equity
\* refresh, no error escapes the step, the refresh timestamp is not
\* advanced, the step goes on with the equity stored before, and the next
\* step tries the refresh again instead of waiting 60 seconds.  (Line 222
\* advances the timestamp at the end of every refresh that did not fail, so
\* a step whose refresh was due and whose timestamp stayed is a step whose
\* refresh failed.)
C39_FailedRefreshKeepsEquity ==
    [][(/\ IsStep
        /\ StepFetches
        /\ last_equity_update' = last_equity_update)
       => (/\ last'.result \in {"quoted", "no_requote", "rate_limited", "bad_max_notional",
                                "bad_px", "bad_px_q"}
           /\ equity_usd' = equity_usd
           /\ pos_qty' = pos_qty
           /\ RefreshDue(FALSE, last_equity_update', now'))]_vars

\* C40: whenever the engine places a BUY, the position the venue actually
\* holds, valued at the cycle's mid, is below the inventory budget
\* equity * invBudgetPct / 100, and whenever it places a SELL that value is
\* above minus the budget: the position used for the gate is never behind
\* the fills since the last refresh.
C40_GatingUsesActualPosition ==
    \A i \in AllPlaceCalls(calls) :
        LET actual_notional == venue_pos * last.m
            budget100 == equity_usd * params.invBudgetPct * NotionalScale
        IN  IF calls[i].side = "BUY"
            THEN actual_notional * 100 < budget100
            ELSE actual_notional * 100 > 0 - budget100

\* C38: a quoting cycle the rate limit blocked is not lost.  The blocked
\* step leaves prev_mid where it was; so do the ticks of the clock and
\* every later step that executes no cycle, which also leave the counter
\* and the window start; and the first step after the 60 seconds have
\* elapsed that sees a mid still away from prev_mid, without a volatility
\* spike, executes the cycle: every held side is cancelled, then the
\* eligible sides are placed, and prev_mid becomes that mid.
C38_BlockedCycleNotLost ==
    /\ [][(IsStep /\ last'.result = "rate_limited")
          => (prev_mid' = prev_mid /\ StepMidMoved)]_vars
    /\ [][((IsStep /\ ~ CycleExecuted) \/ last'.op = "tick")
          => UNCHANGED <<prev_mid, order_count_1min, last_order_reset, bid, ask>>]_vars
    /\ [][(/\ StepWithMid
           /\ order_count_1min >= max_orders_per_min
           /\ ~ WindowOpen
           /\ StepMidMoved
           /\ ~ BigMove(params, StepVol1.tr1, StepVol1.atr_val))
          => \A q \in {StepQuoteOf} :
               q.status = "ok"
               => /\ CycleExecuted
                  /\ prev_mid' = last'.m
                  /\ \A side \in Sides :
                       /\ (IF side = "bid" THEN bid ELSE ask).order_id # None
                            => CancelCalls(calls', side) # {}
                       /\ (IF side = "bid" THEN q.can_buy /\ q.bid_ok
                                           ELSE q.can_sell /\ q.ask_ok)
                            => PlaceCalls(calls', side) # {}
                  /\ \A i, j \in DOMAIN calls' :
                       (calls'[i].op = "cancel" /\ calls'[j].op = "place") => i < j]_vars

\* The counter stood at the cap when the step ran, the window had elapsed,
\* and the step cancelled both resting orders and placed both sides at a
\* mid that differs from the one of the orders it replaced.  A blocked
\* step changes nothing the engine keeps, so this state is the same
\* whether or not a step at that mid was blocked while the window was open.
C38_Witness ==
    /\ last.op = "step"
    /\ last.result = "quoted"
    /\ last.count0 >= max_orders_per_min
    /\ last_order_reset = now
    /\ prev_mid = last.m
    /\ CancelCalls(calls, "bid") # {} /\ CancelCalls(calls, "ask") # {}
    /\ PlaceCalls(calls, "bid") # {} /\ PlaceCalls(calls, "ask") # {}
    /\ order_count_1min = 2

====
